---- MODULE Spec2Model ----
(***************************************************************************)
(* State-machine model of the signal pipeline of baltzfx/signal_engine:    *)
(* the signal Tracker (app/signals/tracker.py), the Signal Engine consumer *)
(* (app/signals/engine.py), the multi-timeframe gate (app/features/mtf.py) *)
(* and the long-lived loops started by app/main.py.                        *)
(*                                                                         *)
(* Numbers.  Prices, ATR values, TP and SL are fixed-point integers in     *)
(* units of 1e-8 quote currency, so round(x, 6) is a real rounding (to a   *)
(* multiple of Round6Step units).  ATR multipliers are in tenths (2.0 is   *)
(* 20).  pnl_pct is in units of 1e-4 percent, the precision round(.., 4)   *)
(* keeps.  Time is in ticks of the model's clock.                          *)
(***************************************************************************)
EXTENDS Integers, Sequences, FiniteSets, TLC

\* ------------------------------------------------------------------ bounds

\* Number of TrackedSignal objects that may be constructed in one run.
MaxSignals == 2
\* Last instant of the wall clock.
MaxTime == 2
\* settings.signal_max_ttl, scaled to the clock of the model.
SignalMaxTtl == 1

\* Capacity of the event queue (settings.event_queue_maxsize).
EventQueueMaxsize == 2
\* Events held in the queue and the buffers at one time.
MaxEvents == 1
\* settings.signal_cooldown_seconds, scaled to the clock of the model.
SignalCooldown == 1
\* The 30 seconds after which _flush_buffers drops a buffer, scaled likewise.
BufferMaxAge == 1
MaxPushes == 4
HistoryCap == 2
MaxAppends == 3
MaxPayloads == 2
FALLBACK_INTERVAL == 1
MaxRuns == 2
MaxStreak == 10
SignalQueueMaxsize == 1
MaxEmissions == 3
_FLUSH_SIZE == 2
MaxRows == 4
MaxScoreEvents == 2
MaxSnapshots == 4
MaxEmitted == 3
MaxOverflow == 3
MaxFrames == 4
MaxReconnects == 2
BufferCountCap == 4
AgeQueueMax == 2

\* ------------------------------------------------------- program constants

\* Python's None (an absent argument, a NULL column).
None == -1
\* round(x, 6) on 1e-8 units: the nearest multiple of 100 units.
Round6Step == 100
\* settings.tp_atr_multiplier = 2.0 and settings.sl_atr_multiplier = 1.0, in tenths.
tp_atr_multiplier == 20
sl_atr_multiplier == 10
\* round(raw_pnl * 100, 4): pnl_pct counts 1e-4 percent, 10^6 per unit of raw_pnl.
PnlScale == 1000000
\* tracker._MAX_CLOSED
_MAX_CLOSED == 500
\* settings.signal_score_threshold = 0.50, in hundredths.
signal_score_threshold == 50
\* settings.mtf_min_aligned
mtf_min_aligned == 2

\* settings.symbols, cut to two, in the order of the list
SymbolOrder == <<"BTCUSDT", "ETHUSDT">>
Symbols == {SymbolOrder[i] : i \in 1..Len(SymbolOrder)}
Directions == {"long", "short"}
Outcome == {"open", "tp_hit", "sl_hit", "expired", "manual", "reversed"}

\* ----------------------------------------------------------------- inputs

\* Entry prices and ATR values the callers of the lifecycle model pass.
EntryPrices == {1000, 1100}
AtrValues == {100}
\* Prices a price read may return (0 is the "0" default of a missing field).
ReadPrices == {0, 900, 1100, 1200}
\* Close prices of a manual close.
ManualPrices == {1200}

VARIABLES
    now,              \* time.time()
    sigs,             \* every TrackedSignal object constructed so far (index = identity)
    _open_signals,    \* the dict symbol -> TrackedSignal, as <<symbol, id>> in insertion order
    _closed_signals,  \* the ring of to_dict() snapshots of closed signals
    _running,         \* tracker._running
    _monitor_task,    \* "none" | "sleeping" | "awaiting" | "cancelled"
    sweep             \* locals of the suspended _check_all_open_signals: [items, now]

trackerVars == <<now, sigs, _open_signals, _closed_signals, _running, _monitor_task, sweep>>

VARIABLES
    cfg,              \* settings: [tracker_enabled, mtf_alignment_required, ai_enabled]
    app,              \* main.lifespan: "init" | "started" | "stopped"
    task,             \* the loop tasks: "none" | "ready" (alive) | "crashed"
    features,         \* store: whether the hash {symbol}:features exists
    _queue,           \* event_queue._queue
    _event_buffer,    \* signals.engine._event_buffer: symbol -> ts of its buffered events
    _cooldowns,       \* signals.engine._cooldowns: symbol -> last signal time, None when absent
    eval,             \* locals of the suspended _evaluate_symbol
    last_signal       \* the signal dict _evaluate_symbol emitted last

engineVars == <<cfg, app, task, features, _queue, _event_buffer, _cooldowns, eval, last_signal>>

VARIABLES
    _counters,        \* monitoring._counters, the names the event engine increments
    warned,           \* number of "Event queue full" warnings logged
    pushed,           \* history: every event passed to push_event, with whether put_nowait took it
    popped            \* history: every event pop_event returned

queueVars == <<_counters, warned, pushed, popped>>

VARIABLES
    history,          \* Raw Store lists: key -> sequence of appended elements, newest first
    pending,          \* key -> TRUE while a handler is between its lpush and its ltrim
    loaded,           \* what the last _load_list returned
    last_write,       \* the values of the last Raw Store write (hash fields or list element)
    bus,              \* number of redis_stream_notify calls
    ingest,           \* monitoring counters of the handlers: invalid and messages, per kind
    last_msg,         \* the last payload handed to a handler, the verdict and how the call ended
    handled           \* number of payloads handed to handlers

storeVars == <<history, pending, loaded, last_write, bus, ingest, last_msg, handled>>

VARIABLES
    _last_computed_age,  \* symbol -> time.time() - _last_computed.get(symbol, 0), cut at FALLBACK_INTERVAL + 1
    comp,                \* loop -> symbol -> "running" while _compute_symbol_features of that loop runs
    stream_pc,           \* _stream_consumer: "xread" or "gather"
    fallback_pc,         \* _fallback_loop: "check", "gather" or "sleep"
    sleep_left,          \* what is left of asyncio.sleep(FALLBACK_INTERVAL)
    runs                 \* history: loop -> symbol -> completed recomputations, counted up to MaxRuns

featVars == <<_last_computed_age, comp, stream_pc, fallback_pc, sleep_left, runs>>

VARIABLES
    conn,                \* one streaming connection of a BaseCollector: pc, backoff and history
    collector_running    \* BaseCollector._running

connVars == <<conn, collector_running>>

VARIABLES
    ltask,               \* long-lived task -> "none", "running", "crashed" or "done"
    lifespan_pc          \* where main.lifespan is: "init", "live", the stop_* it runs next, "complete", "aborted"

lifeVars == <<ltask, lifespan_pc>>

VARIABLES
    _clients,            \* websocket_broadcast._clients: client -> "absent", "fast" or "slow"
    emission,            \* the emission the signal consumer is in: pc, clients still to send to, current client
    _signal_queue,       \* the Telegram queue: emission numbers
    sink_counters,       \* signals_emitted and telegram_queue_full
    delivered            \* history: number of send_json calls that returned

sinkVars == <<_clients, emission, _signal_queue, sink_counters, delivered>>

VARIABLES
    _write_buffer,       \* database._write_buffer: the rows waiting, by number of enqueue
    _buffer_lock,        \* who holds database._buffer_lock: "free", "writer" or "timer"
    batch,               \* the batch the holder of the lock is writing
    tx,                  \* rows executed on the connection and not yet committed
    db_rows,             \* rows committed to SQLite, in commit order
    db_pc,               \* close_db: "open", "cancelling", "final" or "closed"
    db_log               \* history: rows enqueued, rows enqueued when close_db began, a flush failed

dbVars == <<_write_buffer, _buffer_lock, batch, tx, db_rows, db_pc, db_log>>

VARIABLES
    _prev_features,      \* events.engine._prev_features[symbol], the keys _scan_symbol reads back
    replay               \* history: the snapshot scanned, the previous snapshot it met, the events of both scans

scanVars == <<_prev_features, replay>>

VARIABLES
    mtf_store,           \* "{symbol}:features:{tf}" per timeframe: a features hash or Absent
    gate                 \* _evaluate_symbol at the MTF gate and the score threshold

mtfVars == <<mtf_store, gate>>

VARIABLES
    scored               \* a call of compute_signal_score: its arguments and what it returned

scoreVars == <<scored>>

VARIABLES
    price_store,         \* the hashes "{symbol}:mark_price" and "{symbol}:kline..." of one symbol
    arming               \* the arming step of _evaluate_symbol: what it did, and
                         \* (history) the hashes as they were at that moment

armVars == <<price_store, arming>>

VARIABLES
    age_buffer,          \* _event_buffer[symbol]: its length (BufferCountCap stands for that
                         \* many or more) and the ages of its first and last event
    age_queue            \* the events of the symbol on the event queue, by age

ageVars == <<age_buffer, age_queue>>


VARIABLES
    feature_slots,       \* one symbol: primary |-> SYMBOL:features:<primary_timeframe>, default |-> SYMBOL:features
    slot_comp,           \* loop -> the primary-timeframe step of its _compute_symbol_features: pc and the snapshot built
    slot_stale,          \* now - _last_computed.get(symbol, 0) > FALLBACK_INTERVAL
    snapshots            \* history: feature maps built so far; each carries its own "ts"

slotVars == <<feature_slots, slot_comp, slot_stale, snapshots>>


VARIABLES
    emit,                \* the emit steps of _evaluate_symbol: pc, the signal, (history) the steps taken for it
    sqlite_buffer,       \* database._write_buffer: signal rows waiting for a flush
    sqlite_rows,         \* signal rows committed to the signals table
    jsonl_lines,         \* lines of data/signals/signals_<day>.jsonl
    notify_log           \* history: the signals put on the Telegram queue, in order

emitVars == <<emit, sqlite_buffer, sqlite_rows, jsonl_lines, notify_log>>


VARIABLES
    link,                \* _run_connection at its message loop: pc, _running, backoff, (history) reconnects
    inbox,               \* frames received on the open connection and not yet iterated
    frame,               \* the frame whose handler is awaited, or NoFrame
    frame_log            \* history: the frames iterated, in order, each with what became of it

frameVars == <<link, inbox, frame, frame_log>>


VARIABLES
    closed_ring,         \* tracker._closed_signals of a long run: each entry is the number of its close
    closed_count,        \* history: closes so far
    closed_view          \* the last get_closed_signals call: its limit and what it returned

ringVars == <<closed_ring, closed_count, closed_view>>

pipelineVars == <<queueVars, storeVars, featVars, connVars, lifeVars, sinkVars, dbVars, scanVars, mtfVars, scoreVars, armVars, ageVars, slotVars, emitVars, frameVars, ringVars>>
pipelineButQueue == <<storeVars, featVars, connVars, lifeVars, sinkVars, dbVars, scanVars, mtfVars, scoreVars, armVars, ageVars, slotVars, emitVars, frameVars, ringVars>>
pipelineButStore == <<queueVars, featVars, connVars, lifeVars, sinkVars, dbVars, scanVars, mtfVars, scoreVars, armVars, ageVars, slotVars, emitVars, frameVars, ringVars>>
pipelineButFeat == <<queueVars, storeVars, connVars, lifeVars, sinkVars, dbVars, scanVars, mtfVars, scoreVars, armVars, ageVars, slotVars, emitVars, frameVars, ringVars>>
pipelineButConn == <<queueVars, storeVars, featVars, lifeVars, sinkVars, dbVars, scanVars, mtfVars, scoreVars, armVars, ageVars, slotVars, emitVars, frameVars, ringVars>>
pipelineButConnLife == <<queueVars, storeVars, featVars, sinkVars, dbVars, scanVars, mtfVars, scoreVars, armVars, ageVars, slotVars, emitVars, frameVars, ringVars>>
pipelineButSink == <<queueVars, storeVars, featVars, connVars, lifeVars, dbVars, scanVars, mtfVars, scoreVars, armVars, ageVars, slotVars, emitVars, frameVars, ringVars>>
pipelineButDb == <<queueVars, storeVars, featVars, connVars, lifeVars, sinkVars, scanVars, mtfVars, scoreVars, armVars, ageVars, slotVars, emitVars, frameVars, ringVars>>
pipelineButScan == <<queueVars, storeVars, featVars, connVars, lifeVars, sinkVars, dbVars, mtfVars, scoreVars, armVars, ageVars, slotVars, emitVars, frameVars, ringVars>>
pipelineButMtf == <<queueVars, storeVars, featVars, connVars, lifeVars, sinkVars, dbVars, scanVars, scoreVars, armVars, ageVars, slotVars, emitVars, frameVars, ringVars>>
pipelineButScore == <<queueVars, storeVars, featVars, connVars, lifeVars, sinkVars, dbVars, scanVars, mtfVars, armVars, ageVars, slotVars, emitVars, frameVars, ringVars>>
pipelineButArm == <<queueVars, storeVars, featVars, connVars, lifeVars, sinkVars, dbVars, scanVars, mtfVars, scoreVars, ageVars, slotVars, emitVars, frameVars, ringVars>>
pipelineButAge == <<queueVars, storeVars, featVars, connVars, lifeVars, sinkVars, dbVars, scanVars, mtfVars, scoreVars, armVars, slotVars, emitVars, frameVars, ringVars>>
pipelineButSlot == <<queueVars, storeVars, featVars, connVars, lifeVars, sinkVars, dbVars, scanVars, mtfVars, scoreVars, armVars, ageVars, emitVars, frameVars, ringVars>>
pipelineButEmit == <<queueVars, storeVars, featVars, connVars, lifeVars, sinkVars, dbVars, scanVars, mtfVars, scoreVars, armVars, ageVars, slotVars, frameVars, ringVars>>
pipelineButFrame == <<queueVars, storeVars, featVars, connVars, lifeVars, sinkVars, dbVars, scanVars, mtfVars, scoreVars, armVars, ageVars, slotVars, emitVars, ringVars>>
pipelineButRing == <<queueVars, storeVars, featVars, connVars, lifeVars, sinkVars, dbVars, scanVars, mtfVars, scoreVars, armVars, ageVars, slotVars, emitVars, frameVars>>

\* ------------------------------------------------------------ arithmetic

\* n / d rounded to the nearest integer, ties to even (Python's round), d > 0.
RoundDiv(n, d) ==
    LET q == n \div d
        r == n % d
    IN  IF 2 * r < d THEN q
        ELSE IF 2 * r > d THEN q + 1
        ELSE IF q % 2 = 0 THEN q ELSE q + 1

\* round(x, 6)
Round6(x) == RoundDiv(x, Round6Step) * Round6Step

\* atr * mult, mult in tenths
AtrTimes(atr, mult) == (atr * mult) \div 10

\* "x or default": None and 0 are both falsy.
OrDefault(x, default) == IF x = None \/ x = 0 THEN default ELSE x

\* ------------------------------------------------------------- the dict

DictHas(d, k) == \E i \in 1..Len(d) : d[i][1] = k

\* d.get(k): the id stored under k, or None
DictGet(d, k) ==
    IF DictHas(d, k) THEN d[CHOOSE i \in 1..Len(d) : d[i][1] = k][2] ELSE None

\* d.pop(k, None): the dict without key k
DictPop(d, k) == SelectSeq(d, LAMBDA e : e[1] # k)

\* Faulty variant of DictSet: the entry is appended without looking for the key.
DictSet_append(d, k, v) == Append(d, <<k, v>>)

\* d[k] = v: an existing key keeps its place, a new key goes last
DictSet(d, k, v) ==
    IF DictHas(d, k)
    THEN [i \in 1..Len(d) |-> IF d[i][1] = k THEN <<k, v>> ELSE d[i]]
    ELSE Append(d, <<k, v>>)

\* ------------------------------------------------------- TrackedSignal

\* TrackedSignal(...): a new object, outcome open, close_price = pnl_pct = 0.  The
\* fields score, trigger_events and closed_at are written and reported but decide
\* nothing, and are left out.
TrackedSignal(symbol, direction, entry_price, tp_price, sl_price, atr, opened_at, ttl) ==
    [symbol |-> symbol, direction |-> direction, entry_price |-> entry_price,
     tp_price |-> tp_price, sl_price |-> sl_price, atr |-> atr,
     opened_at |-> opened_at, ttl |-> ttl, outcome |-> "open",
     close_price |-> 0, pnl_pct |-> 0]

is_open(sig) == sig.outcome = "open"

\* to_dict(): a snapshot of the fields; id keeps the identity of the object it was taken of
to_dict(sig, id) ==
    [id |-> id, symbol |-> sig.symbol, direction |-> sig.direction,
     entry_price |-> sig.entry_price, tp_price |-> sig.tp_price, sl_price |-> sig.sl_price,
     opened_at |-> sig.opened_at, ttl |-> sig.ttl, outcome |-> sig.outcome,
     close_price |-> sig.close_price, pnl_pct |-> sig.pnl_pct]

\* The tracker's mutable state as one value, threaded through the helpers below;
\* raised is set when the code raised an exception on the way.
Tr == [sigs |-> sigs, open |-> _open_signals, closed |-> _closed_signals, raised |-> FALSE]

Commit(T) ==
    /\ sigs' = T.sigs
    /\ _open_signals' = T.open
    /\ _closed_signals' = T.closed

\* raw_pnl * 100 rounded to 4 places, negated for a short
PnlPct(direction, entry_price, close_price) ==
    IF direction = "long"
    THEN RoundDiv((close_price - entry_price) * PnlScale, entry_price)
    ELSE RoundDiv((entry_price - close_price) * PnlScale, entry_price)

\* Faulty variant of RingAppend: nothing is evicted.
RingAppend_unbounded(ring, d) == Append(ring, d)

\* _closed_signals.append(d); pop(0) when longer than _MAX_CLOSED
RingAppend(ring, d) ==
    LET r == Append(ring, d)
    IN  IF Len(r) > _MAX_CLOSED THEN Tail(r) ELSE r

\* _close_signal(sig, outcome, close_price) at time t.  With entry_price None the
\* comparison "sig.entry_price > 0" raises TypeError after the first
\* assignments: the signal is neither archived nor removed from the dict.
_close_signal(T, id, outcome, close_price, t) ==
    LET sig == T.sigs[id]
        marked == [sig EXCEPT !.outcome = outcome, !.close_price = close_price]
    IN  IF sig.entry_price = None
        THEN [T EXCEPT !.sigs[id] = marked, !.raised = TRUE]
        ELSE LET done == IF sig.entry_price > 0
                         THEN [marked EXCEPT !.pnl_pct = PnlPct(sig.direction, sig.entry_price, close_price)]
                         ELSE marked
             IN  [T EXCEPT !.sigs[id] = done,
                           !.closed = RingAppend(T.closed, to_dict(done, id)),
                           !.open = DictPop(T.open, sig.symbol)]

\* Faulty variant of PastTtl: a signal expires already when its age equals its ttl.
PastTtl_at_ttl(sig, t) == t - sig.opened_at >= sig.ttl

\* time.time() - sig.opened_at > sig.ttl
PastTtl(sig, t) == t - sig.opened_at > sig.ttl

\* ------------------------------------------------------------ public API

\* Faulty variant of has_open_signal_ret: the inline TTL check is missing.
has_open_signal_ret_no_ttl(symbol) ==
    LET id == DictGet(_open_signals, symbol)
    IN  IF id = None THEN FALSE ELSE is_open(sigs[id])

\* What has_open_signal(symbol) returns in the current state.
has_open_signal_ret(symbol) ==
    LET id == DictGet(_open_signals, symbol)
    IN  IF id = None THEN FALSE
        ELSE IF PastTtl(sigs[id], now) THEN FALSE
        ELSE is_open(sigs[id])

\* What has_open_signal(symbol) does to the tracker.
has_open_signal_T(T, symbol, t) ==
    LET id == DictGet(T.open, symbol)
    IN  IF id # None /\ PastTtl(T.sigs[id], t)
        THEN _close_signal(T, id, "expired", T.sigs[id].entry_price, t)
        ELSE T

has_open_signal(symbol) ==
    /\ Commit(has_open_signal_T(Tr, symbol, now))
    /\ UNCHANGED <<now, _running, _monitor_task, sweep>>
    /\ UNCHANGED engineVars
    /\ UNCHANGED pipelineVars

\* What get_open_signal(symbol) returns: the id of the signal, or None.
get_open_signal_ret(symbol) ==
    LET id == DictGet(_open_signals, symbol)
    IN  IF id # None /\ is_open(sigs[id]) /\ ~PastTtl(sigs[id], now) THEN id ELSE None

get_open_signal(symbol) ==
    /\ LET id == DictGet(_open_signals, symbol)
       IN  IF id # None /\ is_open(sigs[id]) /\ PastTtl(sigs[id], now)
           THEN Commit(_close_signal(Tr, id, "expired", sigs[id].entry_price, now))
           ELSE UNCHANGED <<sigs, _open_signals, _closed_signals>>
    /\ UNCHANGED <<now, _running, _monitor_task, sweep>>
    /\ UNCHANGED engineVars
    /\ UNCHANGED pipelineVars

\* The loop of get_all_open_signals over list(_open_signals.items()): an exception
\* raised by _close_signal ends it.
RECURSIVE get_all_loop(_, _, _)
get_all_loop(T, items, t) ==
    IF items = <<>> \/ T.raised THEN T
    ELSE LET id == Head(items)[2]
             sig == T.sigs[id]
         IN  IF is_open(sig) /\ PastTtl(sig, t)
             THEN get_all_loop(_close_signal(T, id, "expired", sig.entry_price, t), Tail(items), t)
             ELSE get_all_loop(T, Tail(items), t)

\* What get_all_open_signals() returns: the ids of the signals it lists.
get_all_open_signals_ret ==
    SelectSeq([i \in 1..Len(_open_signals) |-> _open_signals[i][2]],
              LAMBDA id : is_open(sigs[id]) /\ ~PastTtl(sigs[id], now))

get_all_open_signals ==
    /\ Commit(get_all_loop(Tr, _open_signals, now))
    /\ UNCHANGED <<now, _running, _monitor_task, sweep>>
    /\ UNCHANGED engineVars
    /\ UNCHANGED pipelineVars

\* close_signal_manual(symbol, close_price)
close_signal_manual(symbol, close_price) ==
    /\ LET id == DictGet(_open_signals, symbol)
       IN  IF id # None /\ is_open(sigs[id])
           THEN Commit(_close_signal(Tr, id, "manual", close_price, now))
           ELSE UNCHANGED <<sigs, _open_signals, _closed_signals>>
    /\ UNCHANGED <<now, _running, _monitor_task, sweep>>
    /\ UNCHANGED engineVars
    /\ UNCHANGED pipelineVars

\* The TP and SL register_signal computes, before rounding.
tp_raw(direction, entry_price, atr, mult) ==
    IF direction = "long" THEN entry_price + AtrTimes(atr, mult)
    ELSE entry_price - AtrTimes(atr, mult)

sl_raw(direction, entry_price, atr, mult) ==
    IF direction = "long" THEN entry_price - AtrTimes(atr, mult)
    ELSE entry_price + AtrTimes(atr, mult)

\* Faulty variant of register_signal_T: the reversed signal is closed at its own entry price.
register_signal_T_old_price(T, symbol, direction, entry_price, atr, tp_mult, sl_mult, ttl, t) ==
    LET existing == DictGet(T.open, symbol)
        T1 == IF existing # None /\ is_open(T.sigs[existing])
                 /\ T.sigs[existing].direction # direction
              THEN _close_signal(T, existing, "reversed", T.sigs[existing].entry_price, t)
              ELSE T
        tracked == TrackedSignal(symbol, direction, entry_price,
                                 Round6(entry_price + AtrTimes(atr, tp_atr_multiplier)),
                                 Round6(entry_price - AtrTimes(atr, sl_atr_multiplier)),
                                 atr, t, SignalMaxTtl)
    IN  [T1 EXCEPT !.sigs = Append(T1.sigs, tracked),
                   !.open = DictSet(T1.open, symbol, Len(T.sigs) + 1)]

\* Faulty variant of register_signal_T: an open signal is closed as reversed whatever its
\* direction.
register_signal_T_any_direction(T, symbol, direction, entry_price, atr, tp_mult, sl_mult, ttl, t) ==
    LET existing == DictGet(T.open, symbol)
        T1 == IF existing # None /\ is_open(T.sigs[existing])
              THEN _close_signal(T, existing, "reversed", entry_price, t)
              ELSE T
        tracked == TrackedSignal(symbol, direction, entry_price,
                                 Round6(entry_price + AtrTimes(atr, tp_atr_multiplier)),
                                 Round6(entry_price - AtrTimes(atr, sl_atr_multiplier)),
                                 atr, t, SignalMaxTtl)
    IN  [T1 EXCEPT !.sigs = Append(T1.sigs, tracked),
                   !.open = DictSet(T1.open, symbol, Len(T.sigs) + 1)]

\* register_signal(signal, entry_price, atr, tp_mult, sl_mult, ttl) on tracker state T at
\* time t: closes an open signal of the opposite direction as reversed, then stores
\* the new object under the symbol.  The Redis writes that follow are awaited after
\* the dict is updated and their failure is caught.
register_signal_T(T, symbol, direction, entry_price, atr, tp_mult, sl_mult, ttl, t) ==
    LET _tp_mult == OrDefault(tp_mult, tp_atr_multiplier)
        _sl_mult == OrDefault(sl_mult, sl_atr_multiplier)
        _ttl == OrDefault(ttl, SignalMaxTtl)
        existing == DictGet(T.open, symbol)
        T1 == IF existing # None /\ is_open(T.sigs[existing])
                 /\ T.sigs[existing].direction # direction
              THEN _close_signal(T, existing, "reversed", entry_price, t)
              ELSE T
        tracked == TrackedSignal(symbol, direction, entry_price,
                                 Round6(tp_raw(direction, entry_price, atr, _tp_mult)),
                                 Round6(sl_raw(direction, entry_price, atr, _sl_mult)),
                                 atr, t, _ttl)
        id == Len(T.sigs) + 1
    IN  IF T1.raised THEN T1
        ELSE [T1 EXCEPT !.sigs = Append(T1.sigs, tracked),
                        !.open = DictSet(T1.open, symbol, id)]

register_signal(symbol, direction, entry_price, atr, tp_mult, sl_mult, ttl) ==
    /\ Len(sigs) < MaxSignals
    /\ Commit(register_signal_T(Tr, symbol, direction, entry_price, atr, tp_mult, sl_mult, ttl, now))
    /\ UNCHANGED <<now, _running, _monitor_task, sweep>>
    /\ UNCHANGED engineVars
    /\ UNCHANGED pipelineVars


\* ------------------------------------------------------ startup recovery

\* Rows get_signals(limit=100) may return: an armed row carries the entry, TP and SL
\* that were logged, an unarmed row has NULL in those columns; outcome is the
\* joined signal_performance.outcome, "" (falsy: NULL) while unresolved.
DbRow(symbol, direction, entry_price, timestamp, outcome) ==
    [symbol |-> symbol, direction |-> direction, entry_price |-> entry_price,
     tp_price |-> IF entry_price = None THEN None
                  ELSE Round6(tp_raw(direction, entry_price, 100, tp_atr_multiplier)),
     sl_price |-> IF entry_price = None THEN None
                  ELSE Round6(sl_raw(direction, entry_price, 100, sl_atr_multiplier)),
     atr |-> IF entry_price = None THEN None ELSE 100,
     timestamp |-> timestamp, outcome |-> outcome]

DbRows(t) ==
    { DbRow(s, d, e, ts, o) :
        s \in Symbols, d \in {"long"}, e \in {None, 1000}, ts \in {0, t}, o \in {"", "tp_hit"} }

\* The loop of restore_open_signals_from_db over the rows; an exception ends it
\* (the function catches it and returns 0).
RECURSIVE restore_loop(_, _, _)
restore_loop(T, rows, t) ==
    IF rows = <<>> \/ T.raised THEN T
    ELSE LET row == Head(rows)
             tracked == TrackedSignal(row.symbol, row.direction, row.entry_price,
                                      row.tp_price, row.sl_price, row.atr,
                                      row.timestamp, SignalMaxTtl)
             id == Len(T.sigs) + 1
             T1 == [T EXCEPT !.sigs = Append(T.sigs, tracked)]
         IN  IF row.outcome = "" /\ ~DictHas(T.open, row.symbol)
             THEN IF PastTtl(tracked, t)
                  THEN restore_loop(_close_signal(T1, id, "expired", tracked.entry_price, t),
                                    Tail(rows), t)
                  ELSE restore_loop([T1 EXCEPT !.open = DictSet(T1.open, row.symbol, id)],
                                    Tail(rows), t)
             ELSE restore_loop(T, Tail(rows), t)

restore_open_signals_from_db(rows) ==
    /\ Len(sigs) + Len(rows) <= MaxSignals
    /\ Commit(restore_loop(Tr, rows, now))
    /\ UNCHANGED <<now, _running, _monitor_task, sweep>>
    /\ UNCHANGED engineVars
    /\ UNCHANGED pipelineVars

\* --------------------------------------------------------- price monitor

NoSweep == [items |-> <<>>, now |-> 0]

\* Faulty variant of PriceCheckOutcome: strict comparisons, a price equal to the level
\* closes nothing.
PriceCheckOutcome_strict(sig, current_price) ==
    IF sig.direction = "long"
    THEN IF current_price > sig.tp_price THEN "tp_hit"
         ELSE IF current_price < sig.sl_price THEN "sl_hit"
         ELSE "open"
    ELSE IF current_price < sig.tp_price THEN "tp_hit"
         ELSE IF current_price > sig.sl_price THEN "sl_hit"
         ELSE "open"

\* The TP / SL comparison of one signal against a positive price: the outcome to
\* close it with, or "open".
PriceCheckOutcome(sig, current_price) ==
    IF sig.direction = "long"
    THEN IF current_price >= sig.tp_price THEN "tp_hit"
         ELSE IF current_price <= sig.sl_price THEN "sl_hit"
         ELSE "open"
    ELSE IF current_price <= sig.tp_price THEN "tp_hit"
         ELSE IF current_price >= sig.sl_price THEN "sl_hit"
         ELSE "open"

\* The price the sweep uses: the mark price when the mark-price hash is there, else
\* the close of the primary-timeframe kline hash, else None.
CurrentPrice(mark, kline) == IF mark # None THEN mark ELSE kline

\* The for loop of _check_all_open_signals from the head of items up to its next
\* await (the first signal that is open and within TTL at the sweep's now) or to
\* the end of the list: [T, items], the head of items being the signal whose price
\* read is awaited.  An exception ends the sweep.
RECURSIVE sweep_run(_, _, _, _)
sweep_run(T, items, sweep_now, t) ==
    IF items = <<>> THEN [T |-> T, items |-> <<>>]
    ELSE LET id == Head(items)[2]
             sig == T.sigs[id]
         IN  IF ~is_open(sig) THEN sweep_run(T, Tail(items), sweep_now, t)
             ELSE IF PastTtl(sig, sweep_now)
             THEN LET T1 == _close_signal(T, id, "expired", sig.entry_price, t)
                  IN  IF T1.raised THEN [T |-> T1, items |-> <<>>]
                      ELSE sweep_run(T1, Tail(items), sweep_now, t)
             ELSE [T |-> T, items |-> items]

\* After the price reads of the head signal returned mark and kline: the TP / SL
\* check of that signal.  A signal restored with NULL prices makes the comparison
\* raise TypeError.
sweep_check(T, id, mark, kline, t) ==
    LET sig == T.sigs[id]
        current_price == CurrentPrice(mark, kline)
    IN  IF current_price = None THEN T
        ELSE IF current_price <= 0 THEN T
        ELSE IF sig.tp_price = None THEN [T EXCEPT !.raised = TRUE]
        ELSE IF PriceCheckOutcome(sig, current_price) = "open" THEN T
        ELSE _close_signal(T, id, PriceCheckOutcome(sig, current_price), current_price, t)

SetSweep(R) ==
    /\ Commit(R.T)
    /\ sweep' = IF R.items = <<>> THEN NoSweep ELSE [sweep EXCEPT !.items = R.items]
    /\ _monitor_task' = IF R.items = <<>> THEN "sleeping" ELSE "awaiting"

\* start_price_monitor(): sets _running and creates the loop task.
start_price_monitor ==
    /\ _monitor_task = "none"
    /\ _running' = TRUE
    /\ _monitor_task' = "sleeping"
    /\ UNCHANGED <<now, sigs, _open_signals, _closed_signals, sweep>>
    /\ UNCHANGED engineVars
    /\ UNCHANGED pipelineVars

\* stop_price_monitor(): clears _running, cancels the task wherever it is suspended.
stop_price_monitor ==
    /\ _monitor_task # "none"
    /\ _running' = FALSE
    /\ _monitor_task' = "none"
    /\ sweep' = NoSweep
    /\ UNCHANGED <<now, sigs, _open_signals, _closed_signals>>
    /\ UNCHANGED engineVars
    /\ UNCHANGED pipelineVars

\* One iteration of _price_monitor_loop, from waking up to the first await of
\* _check_all_open_signals (or to its return).
sweep_begin ==
    /\ _monitor_task = "sleeping"
    /\ _running
    /\ _open_signals # <<>>
    /\ LET R == sweep_run(Tr, _open_signals, now, now)
       IN  /\ Commit(R.T)
           /\ sweep' = IF R.items = <<>> THEN NoSweep ELSE [items |-> R.items, now |-> now]
           /\ _monitor_task' = IF R.items = <<>> THEN "sleeping" ELSE "awaiting"
    /\ UNCHANGED <<now, _running>>
    /\ UNCHANGED engineVars
    /\ UNCHANGED pipelineVars

\* The awaited price reads return (mark price hash, then the kline hash when the
\* first is empty): the check of the head signal, then on to the next await.  The
\* two reads are one step: what another task does between them it can do before
\* the first, since the sweep reads nothing of the tracker in between.
sweep_resume(mark, kline) ==
    /\ _monitor_task = "awaiting"
    /\ LET id == Head(sweep.items)[2]
           T1 == sweep_check(Tr, id, mark, kline, now)
       IN  IF T1.raised
           THEN /\ Commit(T1)
                /\ sweep' = NoSweep
                /\ _monitor_task' = "sleeping"
           ELSE SetSweep(sweep_run(T1, Tail(sweep.items), sweep.now, now))
    /\ UNCHANGED <<now, _running>>
    /\ UNCHANGED engineVars
    /\ UNCHANGED pipelineVars

\* A price read raises (store error, unparsable value): _price_monitor_loop
\* catches it, logs, sleeps and starts the next sweep.
sweep_read_error ==
    /\ _monitor_task = "awaiting"
    /\ sweep' = NoSweep
    /\ _monitor_task' = "sleeping"
    /\ UNCHANGED <<now, sigs, _open_signals, _closed_signals, _running>>
    /\ UNCHANGED engineVars
    /\ UNCHANGED pipelineVars

\* --------------------------------------------------------------- clock

Tick ==
    /\ now < MaxTime
    /\ now' = now + 1
    /\ UNCHANGED <<sigs, _open_signals, _closed_signals, _running, _monitor_task, sweep>>
    /\ UNCHANGED engineVars
    /\ UNCHANGED pipelineVars

\* ============================================================ application

\* ------------------------------------------------------------- settings

Loops == {"stream", "fallback", "event", "signal"}
Timeframes == {"1m", "5m", "15m", "1h"}

\* The configuration of config.py.
DefaultSettings == [tracker_enabled |-> TRUE, mtf_alignment_required |-> TRUE, ai_enabled |-> FALSE]
\* The configurations examined: the default, and each switch flipped.
Settings ==
    { DefaultSettings,
      [DefaultSettings EXCEPT !.tracker_enabled = FALSE],
      [DefaultSettings EXCEPT !.mtf_alignment_required = FALSE],
      [DefaultSettings EXCEPT !.ai_enabled = TRUE] }

\* What get_mtf_features may read: per timeframe the direction
\* _get_timeframe_direction derives of its features hash, "absent" without hash.
TfRead(d1m, d5m, d15m, d1h) ==
    [tf \in Timeframes |->
        IF tf = "1m" THEN d1m ELSE IF tf = "5m" THEN d5m ELSE IF tf = "15m" THEN d15m ELSE d1h]
MtfReads ==
    { TfRead("absent", "absent", "absent", "absent"),
      TfRead("absent", "long", "absent", "absent"),
      TfRead("long", "long", "absent", "absent"),
      TfRead("long", "long", "short", "neutral"),
      TfRead("long", "short", "long", "short"),
      TfRead("short", "neutral", "short", "absent"),
      TfRead("short", "short", "long", "short"),
      TfRead("neutral", "neutral", "long", "neutral") }
\* get_mtf_score raises (a store error, float() of an unparsable ema_slope).
MtfRaises == [tf \in Timeframes |-> "raises"]
\* get_mtf_score is not called.
MtfNotRead == [tf \in Timeframes |-> "absent"]
\* Composite scores compute_signal_score may return, in hundredths.
Scores == {49, 50}
\* What predict() may return when the AI overlay is on.
AiReads == {"none", "low", "high", "error"}
\* The atr field of the features hash ("0" when absent).
AtrReads == {0, 100}
\* The price reads of the arming step.
EntryMarkReads == {None, 0, 1000}
EntryKlineReads == {None, 1000}

\* --------------------------------------------------------------- events

\* A queue without a bound.
push_event_unbounded(q, event) ==
    Append(q, event)

\* A queue that hands out the newest event first.
push_event_front(q, event) ==
    IF Len(q) < EventQueueMaxsize THEN <<event>> \o q ELSE q

\* push_event(event): put_nowait, the event is dropped when the queue is full.
push_event(q, event) ==
    IF Len(q) < EventQueueMaxsize THEN Append(q, event) ELSE q

\* Events in the queue and in the buffers.
EventsHeld ==
    Len(_queue) + Len(_event_buffer[SymbolOrder[1]]) + Len(_event_buffer[SymbolOrder[2]])

\* --------------------------------------------------------- MTF alignment

\* check_mtf_alignment(mtf_features): mtf_features holds the timeframes whose hash
\* is not empty; aligned iff one side has at least mtf_min_aligned timeframes and
\* more than the other side.
check_mtf_alignment(reads) ==
    LET present == {tf \in Timeframes : reads[tf] # "absent"}
        bullish_count == Cardinality({tf \in present : reads[tf] = "long"})
        bearish_count == Cardinality({tf \in present : reads[tf] = "short"})
    IN  IF present = {} THEN FALSE
        ELSE IF bullish_count >= mtf_min_aligned /\ bullish_count > bearish_count THEN TRUE
        ELSE IF bearish_count >= mtf_min_aligned /\ bearish_count > bullish_count THEN TRUE
        ELSE FALSE

\* ----------------------------------------------------------- lifespan

\* The startup half of main.lifespan: start_feature_engine, start_event_engine,
\* start_signal_engine.  It does not call tracker.start_price_monitor.
lifespan_startup ==
    /\ app = "init"
    /\ app' = "started"
    /\ task' = [l \in Loops |-> "ready"]
    /\ UNCHANGED <<cfg, features, _queue, _event_buffer, _cooldowns, eval, last_signal>>
    /\ UNCHANGED trackerVars
    /\ UNCHANGED pipelineVars

\* ------------------------------------------------------- feature engine

\* One pass of _stream_consumer: xread returned updates, _compute_symbol_features
\* ran for the dirty symbols under gather(return_exceptions=True) and wrote the
\* features of those in ok.
stream_iteration(ok) ==
    /\ task["stream"] = "ready"
    /\ features' = [s \in Symbols |-> features[s] \/ s \in ok]
    /\ UNCHANGED <<cfg, app, task, _queue, _event_buffer, _cooldowns, eval, last_signal>>
    /\ UNCHANGED trackerVars
    /\ UNCHANGED pipelineVars

\* xread raises: "except Exception" logs, sleeps one second, and the loop goes on.
stream_error ==
    /\ task["stream"] = "ready"
    /\ UNCHANGED engineVars
    /\ UNCHANGED pipelineVars
    /\ UNCHANGED trackerVars

\* One pass of _fallback_loop over the stale symbols, then sleep(FALLBACK_INTERVAL).
fallback_iteration(ok) ==
    /\ task["fallback"] = "ready"
    /\ features' = [s \in Symbols |-> features[s] \/ s \in ok]
    /\ UNCHANGED <<cfg, app, task, _queue, _event_buffer, _cooldowns, eval, last_signal>>
    /\ UNCHANGED trackerVars
    /\ UNCHANGED pipelineVars

\* --------------------------------------------------------- event engine

\* The events one sweep pushes: one for every symbol of found, in the order of
\* settings.symbols.
RECURSIVE push_all(_, _, _, _)
push_all(q, found, i, t) ==
    IF i > Len(SymbolOrder) THEN q
    ELSE IF SymbolOrder[i] \in found
    THEN push_all(push_event(q, [symbol |-> SymbolOrder[i], ts |-> t]), found, i + 1, t)
    ELSE push_all(q, found, i + 1, t)

\* One pass of _event_loop: _scan_symbol of every symbol under
\* gather(return_exceptions=True); found are the symbols with features whose scan
\* detected an event (a scan that raises pushes nothing).  Then sleep.
event_sweep(found) ==
    /\ task["event"] = "ready"
    /\ \A s \in found : features[s]
    /\ EventsHeld + Cardinality(found) <= MaxEvents
    /\ _queue' = push_all(_queue, found, 1, now)
    /\ UNCHANGED <<cfg, app, task, features, _event_buffer, _cooldowns, eval, last_signal>>
    /\ UNCHANGED trackerVars
    /\ UNCHANGED pipelineVars

\* -------------------------------------------------------- signal engine

IdleEval == [pc |-> "idle", symbol |-> "", now |-> 0, direction |-> "", score |-> 0,
             mtf_aligned |-> TRUE, mtf_details |-> FALSE, tracker_reported |-> "not_asked"]
NoSignal == [score |-> 0, features_snapshot |-> FALSE,
             mtf_aligned |-> TRUE, mtf_details |-> FALSE, tracker_reported |-> "not_asked"]

\* The legacy cooldown gate: now - _cooldowns.get(symbol, 0) < cooldown blocks.
InCooldown(symbol, t) ==
    _cooldowns[symbol] # None /\ t - _cooldowns[symbol] < SignalCooldown

\* _signal_loop from pop_event to the first await of _evaluate_symbol: the event is
\* buffered, the tracker (or the cooldown) gate is asked, and the features read is
\* started.
signal_pop ==
    /\ task["signal"] = "ready"
    /\ eval.pc = "idle"
    /\ _queue # <<>>
    /\ LET event == Head(_queue)
           symbol == event.symbol
           blocked == IF cfg.tracker_enabled THEN has_open_signal_ret(symbol)
                      ELSE InCooldown(symbol, now)
       IN  /\ _queue' = Tail(_queue)
           /\ _event_buffer' = [_event_buffer EXCEPT ![symbol] = Append(@, event.ts)]
           /\ IF cfg.tracker_enabled
              THEN Commit(has_open_signal_T(Tr, symbol, now))
              ELSE UNCHANGED <<sigs, _open_signals, _closed_signals>>
           /\ eval' = IF blocked THEN IdleEval
                      ELSE [IdleEval EXCEPT !.pc = "features", !.symbol = symbol, !.now = now,
                                            !.tracker_reported =
                                                IF cfg.tracker_enabled THEN "no_open"
                                                ELSE "not_asked"]
    /\ UNCHANGED <<cfg, app, task, features, _cooldowns, last_signal>>
    /\ UNCHANGED <<now, _running, _monitor_task, sweep>>
    /\ UNCHANGED pipelineVars

\* wait_for(pop_event(), 1.0) times out: _flush_buffers drops the buffers whose
\* last event is older than BufferMaxAge.
signal_timeout ==
    /\ task["signal"] = "ready"
    /\ eval.pc = "idle"
    /\ _queue = <<>>
    /\ _event_buffer' =
          [s \in Symbols |->
              IF _event_buffer[s] # <<>>
                 /\ now - _event_buffer[s][Len(_event_buffer[s])] > BufferMaxAge
              THEN <<>> ELSE _event_buffer[s]]
    /\ UNCHANGED <<cfg, app, task, features, _queue, _cooldowns, eval, last_signal>>
    /\ UNCHANGED trackerVars
    /\ UNCHANGED pipelineVars

\* The tail of _evaluate_symbol: log_signal, broadcast, the signal queue, the
\* {symbol}:signal key, and the buffer of the symbol is dropped.
Emit(signal) ==
    /\ last_signal' = signal
    /\ _event_buffer' = [_event_buffer EXCEPT ![eval.symbol] = <<>>]
    /\ eval' = IdleEval

\* The signal dict, cut to the fields the gates decide, with what the tracker gate
\* answered at this evaluation.
BuildSignal(e) ==
    [score |-> e.score, features_snapshot |-> TRUE,
     mtf_aligned |-> e.mtf_aligned, mtf_details |-> e.mtf_details,
     tracker_reported |-> e.tracker_reported]

\* _evaluate_symbol from the features read to the arming read (or to its return):
\* features present, the MTF gate, the score threshold, the AI overlay.  mtf is the
\* read of get_mtf_score; when it raises (MtfRaises) the except clause logs and
\* goes on with mtf_aligned = True and empty mtf_details.
signal_score(mtf, score, direction, ai) ==
    /\ task["signal"] = "ready"
    /\ eval.pc = "features"
    /\ LET mtf_aligned == IF cfg.mtf_alignment_required /\ mtf # MtfRaises
                          THEN check_mtf_alignment(mtf) ELSE TRUE
           mtf_details == cfg.mtf_alignment_required /\ mtf # MtfRaises
           e == [eval EXCEPT !.direction = direction, !.score = score,
                             !.mtf_aligned = mtf_aligned, !.mtf_details = mtf_details]
       IN  IF \/ ~features[eval.symbol]
              \/ ~mtf_aligned
              \/ score < signal_score_threshold
              \/ (cfg.ai_enabled /\ ai = "low")
           THEN /\ eval' = IdleEval
                /\ UNCHANGED <<_event_buffer, _cooldowns, last_signal>>
           ELSE IF cfg.tracker_enabled
           THEN /\ eval' = [e EXCEPT !.pc = "arm"]
                /\ UNCHANGED <<_event_buffer, _cooldowns, last_signal>>
           ELSE /\ _cooldowns' = [_cooldowns EXCEPT ![eval.symbol] = eval.now]
                /\ Emit(BuildSignal(e))
    /\ UNCHANGED <<cfg, app, task, features, _queue>>
    /\ UNCHANGED trackerVars
    /\ UNCHANGED pipelineVars

\* _evaluate_symbol from the arming read to its end: the entry price is the mark
\* price, else the kline close, else 0; with entry and atr positive the signal is
\* registered, otherwise the cooldown is stamped; then the signal is emitted.
signal_arm(mark, kline, atr) ==
    /\ task["signal"] = "ready"
    /\ eval.pc = "arm"
    /\ LET entry_price == IF mark # None THEN mark ELSE IF kline # None THEN kline ELSE 0
       IN  IF entry_price > 0 /\ atr > 0
           THEN /\ Len(sigs) < MaxSignals
                /\ Commit(register_signal_T(Tr, eval.symbol, eval.direction, entry_price,
                                            atr, None, None, None, now))
                /\ Emit(BuildSignal(eval))
                /\ UNCHANGED _cooldowns
           ELSE /\ _cooldowns' = [_cooldowns EXCEPT ![eval.symbol] = eval.now]
                /\ Emit(BuildSignal(eval))
                /\ UNCHANGED <<sigs, _open_signals, _closed_signals>>
    /\ UNCHANGED <<cfg, app, task, features, _queue>>
    /\ UNCHANGED <<now, _running, _monitor_task, sweep>>
    /\ UNCHANGED pipelineVars

\* An awaited call of _evaluate_symbol raises (a store read error, float() of an
\* unparsable value): nothing in _evaluate_symbol or _signal_loop catches it, the
\* exception ends the consumer task.
signal_raise ==
    /\ task["signal"] = "ready"
    /\ eval.pc \in {"features", "arm"}
    /\ task' = [task EXCEPT !["signal"] = "crashed"]
    /\ eval' = IdleEval
    /\ UNCHANGED <<cfg, app, features, _queue, _event_buffer, _cooldowns, last_signal>>
    /\ UNCHANGED trackerVars
    /\ UNCHANGED pipelineVars

\* The shutdown half of main.lifespan: every loop task is cancelled.
lifespan_shutdown ==
    /\ app = "started"
    /\ app' = "stopped"
    /\ task' = [l \in Loops |-> IF task[l] = "crashed" THEN "crashed" ELSE "none"]
    /\ eval' = IdleEval
    /\ UNCHANGED <<cfg, features, _queue, _event_buffer, _cooldowns, last_signal>>
    /\ UNCHANGED trackerVars
    /\ UNCHANGED pipelineVars

\* ------------------------------------------------------------ collectors
\* A payload is a record of its fields; a field holds the class of its value:
\* "missing", or for a numeric field "finite", "nan", "inf" (strings float() parses)
\* or "text" (float() raises ValueError), or for another field the value itself.

Kinds == {"kline", "depth", "mark_price", "force_order", "open_interest", "funding"}
HistoryKeys == {"klines", "liquidations", "oi_history", "funding_history"}

NoWrite == [key |-> "", values |-> <<>>]
NoMsg == [kind |-> "", payload |-> <<>>, verdict |-> "", result |-> ""]

\* float(v) returns: Python parses "nan" and "inf" as floats.
float_ok(v) == v \in {"finite", "nan", "inf"}

\* validate_kline: the nine fields are present and o, h, l, c parse as float.
validate_kline(k) ==
    /\ \A f \in {"s", "t", "o", "h", "l", "c", "v", "q", "x"} : k[f] # "missing"
    /\ \A f \in {"o", "h", "l", "c"} : float_ok(k[f])

\* validate_depth: a stream name, and bids and asks are lists.
validate_depth(d) ==
    /\ d["stream"] # "missing"
    /\ d["bids"] = "list"
    /\ d["asks"] = "list"

\* validate_mark_price: a symbol, and p, i, r are present and parse as float.
validate_mark_price(d) ==
    /\ d["s"] # "missing"
    /\ \A f \in {"p", "i", "r"} : d[f] # "missing" /\ float_ok(d[f])

\* validate_force_order: a symbol, S, p and q are present, S is SELL or BUY.
validate_force_order(o) ==
    /\ o["s"] # "missing"
    /\ \A f \in {"S", "p", "q"} : o[f] # "missing"
    /\ o["S"] \in {"SELL", "BUY"}

\* validate_open_interest: openInterest is present and parses as float.
validate_open_interest(d) ==
    d["openInterest"] # "missing" /\ float_ok(d["openInterest"])

\* validate_funding: the three rates and prices are present and parse as float.
validate_funding(d) ==
    \A f \in {"lastFundingRate", "markPrice", "indexPrice"} : d[f] # "missing" /\ float_ok(d[f])

\* The validator each handler calls first.
validate(kind, p) ==
    CASE kind = "kline" -> validate_kline(p)
      [] kind = "depth" -> validate_depth(p)
      [] kind = "mark_price" -> validate_mark_price(p)
      [] kind = "force_order" -> validate_force_order(p)
      [] kind = "open_interest" -> validate_open_interest(p)
      [] kind = "funding" -> validate_funding(p)

\* A rejected payload passes unnoticed.
inc_invalid_none(c, kind) == c

\* inc("ws_<kind>_invalid") / inc("rest_<kind>_invalid")
inc_invalid(c, kind) == [c EXCEPT !.invalid[kind] = @ + 1]

\* inc("ws_<kind>_messages"); the REST pollers count no messages.
inc_messages(c, kind) ==
    IF kind \in {"open_interest", "funding"} THEN c ELSE [c EXCEPT !.messages[kind] = @ + 1]

\* The list the handler of the kind appends to: klines only for a closed candle.
HistoryKeyOf(kind, p) ==
    CASE kind = "kline" -> IF p["x"] = "closed" THEN "klines" ELSE ""
      [] kind = "force_order" -> "liquidations"
      [] kind = "open_interest" -> "oi_history"
      [] kind = "funding" -> "funding_history"
      [] OTHER -> ""

\* The hash the handler of the kind sets (handle_force_order sets none).
SnapshotKeyOf(kind) == IF kind = "force_order" THEN "" ELSE kind

\* The pollers wrap each symbol in try/except Exception; the stream handlers do not.
Catches(kind) == kind \in {"open_interest", "funding"}

\* r.ltrim(list_key, 0, cap - 1)
ltrim(list) == SubSeq(list, 1, IF Len(list) < HistoryCap THEN Len(list) ELSE HistoryCap)

\* The handler of a kind, from the validation to its lpush (or to its end when it
\* appends to no list).  store_ok = FALSE: the first store command raises.
handle(kind, p, store_ok) ==
    /\ \A k \in HistoryKeys : HistoryKeyOf(kind, p) = k => ~pending[k]
    /\ handled' = handled + 1
    /\ IF ~validate(kind, p)
       THEN /\ ingest' = inc_invalid(ingest, kind)
            /\ last_msg' = [kind |-> kind, payload |-> p, verdict |-> "rejected", result |-> "returned"]
            /\ UNCHANGED <<history, pending, last_write, bus>>
       ELSE IF ~store_ok
       THEN /\ last_msg' = [kind |-> kind, payload |-> p, verdict |-> "accepted",
                            result |-> IF Catches(kind) THEN "returned" ELSE "raised"]
            /\ UNCHANGED <<history, pending, last_write, bus, ingest>>
       ELSE LET key == HistoryKeyOf(kind, p)
            IN  /\ last_write' = [key |-> IF key # "" THEN key ELSE SnapshotKeyOf(kind), values |-> p]
                /\ ingest' = IF kind = "force_order" THEN ingest ELSE inc_messages(ingest, kind)
                /\ bus' = IF kind = "depth" THEN bus + 1 ELSE bus
                /\ IF key # ""
                   THEN /\ history' = [history EXCEPT ![key] = <<handled + 1>> \o @]
                        /\ pending' = [pending EXCEPT ![key] = TRUE]
                   ELSE UNCHANGED <<history, pending>>
                /\ last_msg' = [kind |-> kind, payload |-> p, verdict |-> "accepted", result |-> "returned"]
    /\ UNCHANGED loaded
    /\ UNCHANGED <<trackerVars, engineVars, pipelineButStore>>

handle_kline(p, store_ok) == handle("kline", p, store_ok)
handle_depth(p, store_ok) == handle("depth", p, store_ok)
handle_mark_price(p, store_ok) == handle("mark_price", p, store_ok)
handle_force_order(p, store_ok) == handle("force_order", p, store_ok)
poll_open_interest(p, store_ok) == handle("open_interest", p, store_ok)
poll_funding_rate(p, store_ok) == handle("funding", p, store_ok)

\* The rest of an appending handler: ltrim, expire, (handle_force_order:
\* inc("ws_forceorder_messages"), incr) and redis_stream_notify.
append_finish(key) ==
    /\ pending[key]
    /\ history' = [history EXCEPT ![key] = ltrim(@)]
    /\ pending' = [pending EXCEPT ![key] = FALSE]
    /\ ingest' = IF key = "liquidations" THEN inc_messages(ingest, "force_order") ELSE ingest
    /\ bus' = bus + 1
    /\ UNCHANGED <<loaded, last_write, last_msg, handled>>
    /\ UNCHANGED <<trackerVars, engineVars, pipelineButStore>>

\* The count _compute_timeframe_features passes to _load_list: 50 candles of a list
\* trimmed to 40, and for the other lists fewer elements than their cap.
ReadCount(key) == IF key = "klines" THEN HistoryCap + 1 ELSE HistoryCap - 1

\* _load_list(r, key, count): r.lrange(key, 0, count - 1)
_load_list(key) ==
    /\ loaded' = [key |-> key,
                  items |-> SubSeq(history[key], 1,
                                   IF Len(history[key]) < ReadCount(key) THEN Len(history[key]) ELSE ReadCount(key))]
    /\ UNCHANGED <<history, pending, last_write, bus, ingest, last_msg, handled>>
    /\ UNCHANGED <<trackerVars, engineVars, pipelineButStore>>

\* -------------------------------------------------------- feature engine
\* The two loops of the feature engine after start_feature_engine.  Time is kept as
\* the age of each symbol's last computation; a symbol never computed has
\* _last_computed.get(sym, 0) = 0 and is older than any interval.

FeatureLoops == {"stream", "fallback"}

\* No symbol is ever found stale.
IsStale_never(age) == FALSE

\* now - _last_computed.get(sym, 0) > FALLBACK_INTERVAL
IsStale(age) == age > FALLBACK_INTERVAL

\* tasks = [_compute_symbol_features(sym) for sym in syms]; asyncio.gather starts them.
StartAll(c, loop, syms) ==
    [c EXCEPT ![loop] = [s \in Symbols |-> IF s \in syms THEN "running" ELSE @[s]]]

Gathered(loop) == \A s \in Symbols : comp[loop][s] = "none"

\* Time passes: the ages grow and the sleep of the fallback loop runs down.
feat_tick ==
    /\ _last_computed_age' = [s \in Symbols |->
            IF _last_computed_age[s] > FALLBACK_INTERVAL THEN _last_computed_age[s]
            ELSE _last_computed_age[s] + 1]
    /\ sleep_left' = IF sleep_left > 0 THEN sleep_left - 1 ELSE 0
    /\ UNCHANGED <<comp, stream_pc, fallback_pc, runs>>
    /\ UNCHANGED <<trackerVars, engineVars, pipelineButFeat>>

\* _stream_consumer: an xread returns messages naming the symbols dirty (an empty
\* read loops); the computations of the dirty symbols are gathered.
stream_read(dirty) ==
    /\ stream_pc = "xread"
    /\ dirty # {}
    /\ comp' = StartAll(comp, "stream", dirty)
    /\ stream_pc' = "gather"
    /\ UNCHANGED <<_last_computed_age, fallback_pc, sleep_left, runs>>
    /\ UNCHANGED <<trackerVars, engineVars, pipelineButFeat>>

\* _stream_consumer: gather(return_exceptions=True) returns, back to xread.
stream_gathered ==
    /\ stream_pc = "gather"
    /\ Gathered("stream")
    /\ stream_pc' = "xread"
    /\ UNCHANGED <<_last_computed_age, comp, fallback_pc, sleep_left, runs>>
    /\ UNCHANGED <<trackerVars, engineVars, pipelineButFeat>>

\* _fallback_loop: the stale symbols are collected and their computations
\* gathered; with no stale symbol the loop goes to sleep.
fallback_check ==
    /\ fallback_pc = "check"
    /\ LET stale == {s \in Symbols : IsStale(_last_computed_age[s])}
       IN  IF stale # {}
           THEN /\ comp' = StartAll(comp, "fallback", stale)
                /\ fallback_pc' = "gather"
                /\ UNCHANGED sleep_left
           ELSE /\ fallback_pc' = "sleep"
                /\ sleep_left' = FALLBACK_INTERVAL
                /\ UNCHANGED comp
    /\ UNCHANGED <<_last_computed_age, stream_pc, runs>>
    /\ UNCHANGED <<trackerVars, engineVars, pipelineButFeat>>

\* _fallback_loop: gather(return_exceptions=True) returns, asyncio.sleep begins.
fallback_gathered ==
    /\ fallback_pc = "gather"
    /\ Gathered("fallback")
    /\ fallback_pc' = "sleep"
    /\ sleep_left' = FALLBACK_INTERVAL
    /\ UNCHANGED <<_last_computed_age, comp, stream_pc, runs>>
    /\ UNCHANGED <<trackerVars, engineVars, pipelineButFeat>>

\* _fallback_loop: asyncio.sleep(FALLBACK_INTERVAL) is over.
fallback_wake ==
    /\ fallback_pc = "sleep"
    /\ sleep_left = 0
    /\ fallback_pc' = "check"
    /\ UNCHANGED <<_last_computed_age, comp, stream_pc, sleep_left, runs>>
    /\ UNCHANGED <<trackerVars, engineVars, pipelineButFeat>>

\* _compute_symbol_features(symbol) ends: after the last timeframe
\* _last_computed[symbol] = time.time(); when _compute_timeframe_features raises
\* (ok = FALSE) the timestamp is left alone and gather keeps the exception.
compute_end(loop, symbol, ok) ==
    /\ comp[loop][symbol] = "running"
    /\ comp' = [comp EXCEPT ![loop][symbol] = "none"]
    /\ _last_computed_age' = IF ok THEN [_last_computed_age EXCEPT ![symbol] = 0]
                                   ELSE _last_computed_age
    /\ runs' = IF ok /\ runs[loop][symbol] < MaxRuns
               THEN [runs EXCEPT ![loop][symbol] = @ + 1] ELSE runs
    /\ UNCHANGED <<stream_pc, fallback_pc, sleep_left>>
    /\ UNCHANGED <<trackerVars, engineVars, pipelineButFeat>>

\* --------------------------------------------------- streaming connection
\* BaseCollector._run_connection of one chunk of streams.  Durations are in 1/1024 s.

max_backoff == 30720

\* settings.ws_reconnect_delay: 1 s, 3 s (the default) and 20 s.
ReconnectDelays == {1024, 3072, 20480}

NoConn == [pc |-> "idle", delay |-> 0, backoff |-> 0, slept |-> 0, streak |-> 0, connected |-> FALSE]

\* A backoff that doubles.
next_backoff_double(backoff) ==
    IF 2 * backoff < max_backoff THEN 2 * backoff ELSE max_backoff

\* backoff = min(backoff * 1.5, 30)
next_backoff(backoff) ==
    IF (backoff * 3) \div 2 < max_backoff THEN (backoff * 3) \div 2 ELSE max_backoff

\* BaseCollector.start(): _running = True and the connection task is created;
\* the task reads backoff = settings.ws_reconnect_delay.
collector_start(delay) ==
    /\ conn.pc = "idle"
    /\ collector_running' = TRUE
    /\ conn' = [NoConn EXCEPT !.pc = "connecting", !.delay = delay, !.backoff = delay]
    /\ UNCHANGED <<trackerVars, engineVars, pipelineButConn>>

\* websockets.connect succeeds: backoff is reset.
connect_ok ==
    /\ conn.pc = "connecting"
    /\ conn' = [conn EXCEPT !.pc = "connected", !.backoff = conn.delay, !.streak = 0,
                             !.connected = TRUE]
    /\ UNCHANGED collector_running
    /\ UNCHANGED <<trackerVars, engineVars, pipelineButConn>>

\* The attempt fails, or the open connection ends (an exception other than
\* CancelledError, or the server closes): the task sleeps for backoff.
connect_lost ==
    /\ conn.pc \in {"connecting", "connected"}
    /\ conn' = [conn EXCEPT !.pc = "sleeping", !.slept = conn.backoff,
                             !.streak = IF @ < MaxStreak THEN @ + 1 ELSE @]
    /\ UNCHANGED collector_running
    /\ UNCHANGED <<trackerVars, engineVars, pipelineButConn>>

\* asyncio.sleep(backoff) is over: the backoff grows and the loop tries again.
connect_retry ==
    /\ conn.pc = "sleeping"
    /\ conn' = [conn EXCEPT !.pc = "connecting", !.backoff = next_backoff(conn.backoff)]
    /\ UNCHANGED collector_running
    /\ UNCHANGED <<trackerVars, engineVars, pipelineButConn>>

\* BaseCollector.stop(): _running = False, the task is cancelled and gathered.  The
\* CancelledError is caught in the try block (return) or leaves through the sleep.
collector_stop ==
    /\ collector_running
    /\ collector_running' = FALSE
    /\ conn' = [conn EXCEPT !.pc = "done"]
    /\ UNCHANGED <<trackerVars, engineVars, pipelineButConn>>

\* ------------------------------------------------------- lifespan tasks
\* main.lifespan with its long-lived tasks.  The streaming connection is conn; the
\* other tasks are told apart by name.  The price monitor is a task of the tracker
\* that lifespan neither starts nor stops.

LongTasks == {"oi_loop", "funding_loop", "stream_consumer", "fallback_loop",
              "event_loop", "signal_loop", "price_monitor", "flush_loop"}

\* The tasks lifespan starts: init_db (flush loop), start_collectors (pollers),
\* start_feature_engine, start_event_engine, start_signal_engine.
StartedTasks == LongTasks \ {"price_monitor"}

\* task.cancel() and the await of the task: a running task ends in its
\* "except CancelledError: return" or by the CancelledError leaving its sleep.
Cancelled(t, names) ==
    [n \in LongTasks |-> IF n \in names /\ t[n] = "running" THEN "done" ELSE t[n]]

\* The startup half of lifespan, start_collectors included.
lifespan_start(delay) ==
    /\ lifespan_pc = "init"
    /\ conn.pc = "idle"
    /\ lifespan_pc' = "live"
    /\ ltask' = [t \in LongTasks |-> IF t \in StartedTasks THEN "running" ELSE "none"]
    /\ collector_running' = TRUE
    /\ conn' = [NoConn EXCEPT !.pc = "connecting", !.delay = delay, !.backoff = delay]
    /\ UNCHANGED <<trackerVars, engineVars, pipelineButConnLife>>

\* _signal_loop: _evaluate_symbol raises and nothing catches it; the task ends
\* with the exception stored in it.
signal_loop_raise ==
    /\ ltask["signal_loop"] = "running"
    /\ ltask' = [ltask EXCEPT !["signal_loop"] = "crashed"]
    /\ UNCHANGED <<lifespan_pc, connVars>>
    /\ UNCHANGED <<trackerVars, engineVars, pipelineButConnLife>>

\* The server asks for shutdown: lifespan resumes after its yield.  The stops of the
\* cleanup task, the broadcaster, the monitor and telegram come first.
lifespan_resume ==
    /\ lifespan_pc = "live"
    /\ lifespan_pc' = "stop_signal_engine"
    /\ UNCHANGED <<ltask, connVars>>
    /\ UNCHANGED <<trackerVars, engineVars, pipelineButConnLife>>

\* stop_signal_engine: _task.cancel(), then "await _task" inside
\* "except CancelledError": the exception of a crashed task is raised again and
\* leaves lifespan, which has no handler around its stop calls.
stop_signal_engine ==
    /\ lifespan_pc = "stop_signal_engine"
    /\ IF ltask["signal_loop"] = "crashed"
       THEN lifespan_pc' = "aborted" /\ UNCHANGED ltask
       ELSE /\ lifespan_pc' = "stop_event_engine"
            /\ ltask' = Cancelled(ltask, {"signal_loop"})
    /\ UNCHANGED connVars
    /\ UNCHANGED <<trackerVars, engineVars, pipelineButConnLife>>

stop_event_engine ==
    /\ lifespan_pc = "stop_event_engine"
    /\ lifespan_pc' = "stop_feature_engine"
    /\ ltask' = Cancelled(ltask, {"event_loop"})
    /\ UNCHANGED connVars
    /\ UNCHANGED <<trackerVars, engineVars, pipelineButConnLife>>

stop_feature_engine ==
    /\ lifespan_pc = "stop_feature_engine"
    /\ lifespan_pc' = "stop_collectors"
    /\ ltask' = Cancelled(ltask, {"stream_consumer", "fallback_loop"})
    /\ UNCHANGED connVars
    /\ UNCHANGED <<trackerVars, engineVars, pipelineButConnLife>>

\* stop_collectors: BaseCollector.stop() of every collector, then the pollers are
\* cancelled and gathered.
stop_collectors ==
    /\ lifespan_pc = "stop_collectors"
    /\ lifespan_pc' = "close_db"
    /\ collector_running' = FALSE
    /\ conn' = [conn EXCEPT !.pc = "done"]
    /\ ltask' = Cancelled(ltask, {"oi_loop", "funding_loop"})
    /\ UNCHANGED <<trackerVars, engineVars, pipelineButConnLife>>

\* close_db: the flush task is cancelled and awaited; then close_redis.
close_db ==
    /\ lifespan_pc = "close_db"
    /\ lifespan_pc' = "complete"
    /\ ltask' = Cancelled(ltask, {"flush_loop"})
    /\ UNCHANGED connVars
    /\ UNCHANGED <<trackerVars, engineVars, pipelineButConnLife>>

\* ---------------------------------------------------------------- sinks
\* The tail of _evaluate_symbol, run by the signal consumer task for a signal that
\* passed the gates: log_signal, broadcast_signal to the WebSocket clients, then
\* put_nowait on the Telegram queue.  A client is "fast" (send_json returns),
\* "slow" (its send buffer is full: send_json stays suspended) or "absent".

ClientIds == {"c1", "c2"}

NoEmission == [pc |-> "idle", todo |-> {}, current |-> ""]

\* A queue that takes every signal.
signal_put_nowait_unbounded(q, signal) == Append(q, signal)

\* sq.put_nowait(signal) with QueueFull caught: the signal is dropped.
signal_put_nowait(q, signal) ==
    IF Len(q) < SignalQueueMaxsize THEN Append(q, signal) ELSE q

\* A client connects (handle_websocket_connection), stops reading, reads again,
\* or goes away.
client_change(c, to) ==
    /\ _clients[c] # to
    /\ _clients' = [_clients EXCEPT ![c] = to]
    /\ UNCHANGED <<emission, _signal_queue, sink_counters, delivered>>
    /\ UNCHANGED <<trackerVars, engineVars, pipelineButSink>>

\* log_signal, inc("signals_emitted"), and broadcast_signal up to the loop of
\* _broadcast over _clients (no client: broadcast_signal returns at once).
emit_begin ==
    /\ emission.pc = "idle"
    /\ sink_counters.signals_emitted < MaxEmissions
    /\ sink_counters' = [sink_counters EXCEPT !.signals_emitted = @ + 1]
    /\ LET present == {c \in ClientIds : _clients[c] # "absent"}
       IN  emission' = IF present = {} THEN [pc |-> "queue", todo |-> {}, current |-> ""]
                       ELSE [pc |-> "broadcast", todo |-> present, current |-> ""]
    /\ UNCHANGED <<_clients, _signal_queue, delivered>>
    /\ UNCHANGED <<trackerVars, engineVars, pipelineButSink>>

\* _broadcast: the loop takes its next client and awaits client.send_json(message).
broadcast_next(c) ==
    /\ emission.pc = "broadcast"
    /\ c \in emission.todo
    /\ emission' = [emission EXCEPT !.pc = "send_json", !.current = c]
    /\ UNCHANGED <<_clients, _signal_queue, sink_counters, delivered>>
    /\ UNCHANGED <<trackerVars, engineVars, pipelineButSink>>

\* send_json returns (the client took the message) or raises (the client is gone:
\* caught, the client is discarded after the loop).  Nothing ends the await while
\* the client is slow.
send_json_end ==
    /\ emission.pc = "send_json"
    /\ _clients[emission.current] # "slow"
    /\ delivered' = IF _clients[emission.current] = "fast" /\ delivered < MaxEmissions
                    THEN delivered + 1 ELSE delivered
    /\ LET rest == emission.todo \ {emission.current}
       IN  emission' = IF rest = {} THEN [pc |-> "queue", todo |-> {}, current |-> ""]
                       ELSE [pc |-> "broadcast", todo |-> rest, current |-> ""]
    /\ UNCHANGED <<_clients, _signal_queue, sink_counters>>
    /\ UNCHANGED <<trackerVars, engineVars, pipelineButSink>>

\* put_nowait on the Telegram queue, inc("telegram_queue_full") when it is full;
\* then redis_set and the end of _evaluate_symbol.
telegram_put ==
    /\ emission.pc = "queue"
    /\ _signal_queue' = signal_put_nowait(_signal_queue, sink_counters.signals_emitted)
    /\ sink_counters' = IF Len(_signal_queue) < SignalQueueMaxsize THEN sink_counters
                        ELSE [sink_counters EXCEPT !.telegram_queue_full = @ + 1]
    /\ emission' = NoEmission
    /\ UNCHANGED <<_clients, delivered>>
    /\ UNCHANGED <<trackerVars, engineVars, pipelineButSink>>

\* The Telegram worker takes a signal off the queue.
telegram_get ==
    /\ _signal_queue # <<>>
    /\ _signal_queue' = Tail(_signal_queue)
    /\ UNCHANGED <<_clients, emission, sink_counters, delivered>>
    /\ UNCHANGED <<trackerVars, engineVars, pipelineButSink>>

\* A step of the signal consumer inside an emission.
EmissionStep ==
    \/ \E c \in ClientIds : broadcast_next(c)
    \/ send_json_end
    \/ telegram_put

\* ----------------------------------------------------- write-behind buffer
\* database.py after init_db: writers call _buffer_write, the flush task runs
\* _flush_loop, close_db ends it.  A flush that holds the lock is suspended in
\* cur.execute / _db.commit between taking its batch and committing it.

\* batch = list(_write_buffer); _write_buffer.clear()
take_batch(buffer) == [batch |-> buffer, buffer |-> <<>>]

\* _flush_buffer() run to its end without another task in between: with an open
\* database and rows waiting, every row is executed and committed (ok) or the
\* batch is dropped with a warning ("except Exception").
FlushNow(ok) ==
    IF _write_buffer = <<>> \/ db_pc = "closed"
    THEN UNCHANGED <<_write_buffer, tx, db_rows, db_log>>
    ELSE /\ _write_buffer' = take_batch(_write_buffer).buffer
         /\ IF ok THEN /\ db_rows' = db_rows \o tx \o take_batch(_write_buffer).batch
                        /\ tx' = <<>>
                        /\ UNCHANGED db_log
                  ELSE /\ db_log' = [db_log EXCEPT !.failed = TRUE]
                       /\ UNCHANGED <<tx, db_rows>>

\* _buffer_write(sql, params): under the lock the row is appended; at _FLUSH_SIZE
\* rows _flush_buffer_locked takes them as its batch (nothing to do once _db is None).
_buffer_write ==
    /\ _buffer_lock = "free"
    /\ db_log.enqueued < MaxRows
    /\ db_log' = [db_log EXCEPT !.enqueued = @ + 1]
    /\ LET appended == Append(_write_buffer, db_log.enqueued + 1)
       IN  IF Len(appended) >= _FLUSH_SIZE /\ db_pc # "closed"
           THEN /\ batch' = take_batch(appended).batch
                /\ _write_buffer' = take_batch(appended).buffer
                /\ _buffer_lock' = "writer"
           ELSE /\ _write_buffer' = appended
                /\ UNCHANGED <<batch, _buffer_lock>>
    /\ UNCHANGED <<tx, db_rows, db_pc>>
    /\ UNCHANGED <<trackerVars, engineVars, pipelineButDb>>

\* _flush_loop: asyncio.sleep(_FLUSH_INTERVAL) is over, _flush_buffer takes the lock
\* and the rows.
timer_flush ==
    /\ db_pc = "open"
    /\ _buffer_lock = "free"
    /\ _write_buffer # <<>>
    /\ batch' = take_batch(_write_buffer).batch
    /\ _write_buffer' = take_batch(_write_buffer).buffer
    /\ _buffer_lock' = "timer"
    /\ UNCHANGED <<tx, db_rows, db_pc, db_log>>
    /\ UNCHANGED <<trackerVars, engineVars, pipelineButDb>>

\* The flush in progress ends: the executes and the commit succeeded, or one of
\* them raised and the batch is dropped with a warning.
flush_end(ok) ==
    /\ _buffer_lock # "free"
    /\ IF ok THEN /\ db_rows' = db_rows \o tx \o batch
                   /\ tx' = <<>>
                   /\ UNCHANGED db_log
             ELSE /\ db_log' = [db_log EXCEPT !.failed = TRUE]
                  /\ UNCHANGED <<tx, db_rows>>
    /\ batch' = <<>>
    /\ _buffer_lock' = "free"
    /\ UNCHANGED <<_write_buffer, db_pc>>
    /\ UNCHANGED <<trackerVars, engineVars, pipelineButDb>>

\* close_db: _flushing = False and _flush_task.cancel().
close_db_cancel ==
    /\ db_pc = "open"
    /\ db_pc' = "cancelling"
    /\ db_log' = [db_log EXCEPT !.at_close = db_log.enqueued]
    /\ UNCHANGED <<_write_buffer, _buffer_lock, batch, tx, db_rows>>
    /\ UNCHANGED <<trackerVars, engineVars, pipelineButDb>>

\* The flush task meets the CancelledError while it flushes: the first k rows of
\* its batch were executed, "except Exception" does not catch, the lock is
\* released, and the final _flush_buffer() of the handler finds the buffer empty.
flush_cancelled_in_flush(k) ==
    /\ db_pc = "cancelling"
    /\ _buffer_lock = "timer"
    /\ k \in 0..Len(batch)
    /\ tx' = tx \o SubSeq(batch, 1, k)
    /\ batch' = <<>>
    /\ _buffer_lock' = "free"
    /\ db_pc' = "final"
    /\ UNCHANGED <<_write_buffer, db_rows, db_log>>
    /\ UNCHANGED <<trackerVars, engineVars, pipelineButDb>>

\* The flush task meets the CancelledError in its sleep: the handler runs the
\* final _flush_buffer() and returns.
flush_cancelled_in_sleep(ok) ==
    /\ db_pc = "cancelling"
    /\ _buffer_lock = "free"
    /\ FlushNow(ok)
    /\ db_pc' = "final"
    /\ UNCHANGED <<_buffer_lock, batch>>
    /\ UNCHANGED <<trackerVars, engineVars, pipelineButDb>>

\* close_db after the task is gone: its own _flush_buffer(), then _db.close(),
\* which discards what was executed and not committed.
close_db_final(ok) ==
    /\ db_pc = "final"
    /\ _buffer_lock = "free"
    /\ IF _write_buffer = <<>>
       THEN UNCHANGED <<_write_buffer, db_rows, db_log>>
       ELSE /\ _write_buffer' = take_batch(_write_buffer).buffer
            /\ IF ok THEN db_rows' = db_rows \o tx \o take_batch(_write_buffer).batch /\ UNCHANGED db_log
                      ELSE db_log' = [db_log EXCEPT !.failed = TRUE] /\ UNCHANGED db_rows
    /\ tx' = <<>>
    /\ db_pc' = "closed"
    /\ UNCHANGED <<_buffer_lock, batch>>
    /\ UNCHANGED <<trackerVars, engineVars, pipelineButDb>>

\* ------------------------------------------------------------ event scan
\* events.engine._scan_symbol for one symbol.  Amounts are fixed point:
\* liq_total_usd in dollars, oi_delta in 1/1000, range_expansion, ob_imbalance
\* and funding_zscore in 1/10.

liq_spike_threshold == 2
oi_expansion_threshold == 15
atr_expansion_threshold == 15
funding_extreme_threshold == 25
imbalance_flip_threshold == 2

Magnitude(x) == IF x < 0 THEN 0 - x ELSE x

\* The feature hashes read from the store.
FeatureSnapshots ==
    [liq_total_usd : {0, 1, 3}, oi_delta : {-20, 0, 20}, range_expansion : {10, 20},
     breakout : {"none", "bullish", "bearish"}, ob_imbalance : {-3, 0, 1, 3},
     funding_zscore : {-30, 0, 30}]

\* prev.get(key, default) of the keys read from the previous snapshot; the
\* defaults stand for a symbol never scanned.
NoPrev == [liq_total_usd |-> 0, breakout |-> "none", ob_imbalance |-> 0]
NoFeatures == [liq_total_usd |-> 0, oi_delta |-> 0, range_expansion |-> 10,
               breakout |-> "none", ob_imbalance |-> 0, funding_zscore |-> 0]

\* Faulty variant of SavedSnapshot: the scan does not retain what it read.
SavedSnapshot_dropped(f) == NoPrev

\* _prev_features[symbol] = dict(features)
SavedSnapshot(f) == [liq_total_usd |-> f.liq_total_usd, breakout |-> f.breakout,
                     ob_imbalance |-> f.ob_imbalance]

\* A replay that leaves the retained snapshot as the last scan saved it.
ResetPrev_keep(value, current) == current

\* The replay puts the retained snapshot back to a given value.
ResetPrev(value, current) == value

\* events_found of _scan_symbol, by type.
events_found(f, prev) ==
      (IF prev.liq_total_usd > 0 /\ f.liq_total_usd > prev.liq_total_usd * liq_spike_threshold
       THEN {"liquidation_spike"} ELSE {})
    \cup (IF Magnitude(f.oi_delta) > oi_expansion_threshold THEN {"oi_expansion"} ELSE {})
    \cup (IF f.range_expansion > atr_expansion_threshold THEN {"atr_expansion"} ELSE {})
    \cup (IF f.breakout # "none" /\ f.breakout # prev.breakout
          THEN {"structure_breakout"} ELSE {})
    \cup (IF /\ prev.ob_imbalance # 0
             /\ f.ob_imbalance * prev.ob_imbalance < 0
             /\ Magnitude(f.ob_imbalance) >= imbalance_flip_threshold
          THEN {"imbalance_flip"} ELSE {})
    \cup (IF Magnitude(f.funding_zscore) > funding_extreme_threshold
          THEN {"funding_extreme"} ELSE {})

\* _scan_symbol in the running engine: the events are found against the
\* retained snapshot and the snapshot read becomes the retained one.
_scan_symbol(f) ==
    /\ replay.pc = "idle"
    /\ _prev_features' = SavedSnapshot(f)
    /\ UNCHANGED replay
    /\ UNCHANGED <<trackerVars, engineVars, pipelineButScan>>

\* The first scan of a replay: the snapshot, the retained snapshot it met and
\* its events are remembered.
replay_first(f) ==
    /\ replay.pc = "idle"
    /\ replay' = [pc |-> "first", features |-> f, prev |-> _prev_features,
                  first |-> events_found(f, _prev_features), second |-> {}]
    /\ _prev_features' = SavedSnapshot(f)
    /\ UNCHANGED <<trackerVars, engineVars, pipelineButScan>>

\* The second scan of the replay: _prev_features is reset to what the first scan
\* met, then the same snapshot is scanned.
replay_second ==
    /\ replay.pc = "first"
    /\ replay' = [replay EXCEPT !.pc = "second",
                       !.second = events_found(replay.features, ResetPrev(replay.prev, _prev_features))]
    /\ _prev_features' = SavedSnapshot(replay.features)
    /\ UNCHANGED <<trackerVars, engineVars, pipelineButScan>>

\* The next sweep of the running engine reads the same hash again: the scan
\* compares it with what the scan before retained.
rescan ==
    /\ replay.pc = "first"
    /\ replay' = [replay EXCEPT !.pc = "rescanned",
                       !.second = events_found(replay.features, _prev_features)]
    /\ _prev_features' = SavedSnapshot(replay.features)
    /\ UNCHANGED <<trackerVars, engineVars, pipelineButScan>>

\* The events that compare the snapshot with the retained one.
TransitionEvents == {"liquidation_spike", "structure_breakout", "imbalance_flip"}

\* ------------------------------------------------------------- MTF gate
\* features.mtf and the MTF gate of _evaluate_symbol.  ema_slope and
\* vwap_distance are in 1/1000.

primary_timeframe == "5m"
Absent == [absent |-> TRUE]

TfHash(ema, vwap, structure, breakout) ==
    [ema_slope |-> ema, vwap_distance |-> vwap, structure_state |-> structure, breakout |-> breakout]

\* The per-timeframe hashes the feature engine may have written.
TfHashes ==
    { TfHash(0, 0, "neutral", "none"),
      TfHash(2, 0, "neutral", "none"),
      TfHash(-2, -6, "neutral", "none"),
      TfHash(2, 6, "neutral", "bearish"),
      TfHash(0, 0, "downtrend", "bullish"),
      TfHash(0, 6, "uptrend", "bearish"),
      TfHash(-2, 0, "downtrend", "none") }

\* _get_timeframe_direction(features)
_get_timeframe_direction(f) ==
    LET bullish_votes == (IF f.ema_slope > 1 THEN 1 ELSE 0)
                       + (IF f.vwap_distance > 5 THEN 1 ELSE 0)
                       + (IF f.structure_state = "uptrend" THEN 1 ELSE 0)
                       + (IF f.breakout = "bullish" THEN 2 ELSE 0)
        bearish_votes == (IF f.ema_slope < -1 THEN 1 ELSE 0)
                       + (IF f.vwap_distance < -5 THEN 1 ELSE 0)
                       + (IF f.structure_state = "downtrend" THEN 1 ELSE 0)
                       + (IF f.breakout = "bearish" THEN 2 ELSE 0)
    IN  IF bullish_votes > bearish_votes THEN "long"
        ELSE IF bearish_votes > bullish_votes THEN "short"
        ELSE "neutral"

\* get_mtf_features and the directions of check_mtf_alignment: the timeframes
\* whose hash is not empty, each with its direction.
MtfDirections(store) ==
    [tf \in Timeframes |->
        IF store[tf] = Absent THEN "absent" ELSE _get_timeframe_direction(store[tf])]

PendingGate == [pc |-> "pending", computed |-> FALSE, mtf_aligned |-> TRUE]

\* The feature engine has written the per-timeframe hashes of the symbol.
mtf_features_written(store) ==
    /\ gate.pc = "pending"
    /\ mtf_store = [tf \in Timeframes |-> Absent]
    /\ mtf_store' = store
    /\ UNCHANGED gate
    /\ UNCHANGED <<trackerVars, engineVars, pipelineButMtf>>

\* _evaluate_symbol from the MTF check to the score threshold: with
\* mtf_alignment_required, get_mtf_score reads the hashes (read_ok) and a verdict
\* of not aligned returns; when the read raises, "except Exception" logs and
\* goes on with mtf_aligned = True; then the score is compared.
mtf_gate(read_ok, score) ==
    /\ gate.pc = "pending"
    /\ LET computed == cfg.mtf_alignment_required /\ read_ok
           mtf_aligned == IF computed THEN check_mtf_alignment(MtfDirections(mtf_store)) ELSE TRUE
       IN  gate' = [pc |-> IF ~mtf_aligned THEN "mtf_blocked"
                           ELSE IF score < signal_score_threshold THEN "below_threshold"
                           ELSE "signal",
                    computed |-> computed, mtf_aligned |-> mtf_aligned]
    /\ UNCHANGED mtf_store
    /\ UNCHANGED <<trackerVars, engineVars, pipelineButMtf>>

\* --------------------------------------------------------------- scoring
\* signals.scoring.compute_signal_score.  A float is a record: nan, or a fixed
\* point number v.  Units: ema_slope, vwap_distance and oi_delta in 1/10000,
\* liq_ratio and range_expansion in 1/100, score components in 1/1000, weights
\* in 1/100, the composite score in 1/100000.

Num(v) == [nan |-> FALSE, v |-> v]
NaN == [nan |-> TRUE, v |-> 0]

WEIGHTS == [trend |-> 20, liquidation |-> 15, volatility |-> 15, vwap |-> 10,
            oi |-> 15, structure |-> 15, event_quality |-> 10]

Min2(a, b) == IF b < a THEN b ELSE a
Max2(a, b) == IF b > a THEN b ELSE a

\* float(features.get(key, default)) of the numeric keys: what the feature engine
\* wrote, "nan" included.
EmaReads == {Num(-50), Num(0), Num(200), NaN}
VwapReads == {Num(-100), Num(0), Num(300)}
LiqRatioReads == {Num(0), Num(50), Num(300)}
RangeReads == {Num(50), Num(400), NaN}
OiDeltaReads == {Num(-400), Num(600), NaN}
StructureReads == {"neutral", "uptrend", "downtrend"}
BreakoutReads == {"none", "bullish", "bearish"}
ScoreFeatures ==
    [ema_slope : EmaReads, vwap_distance : VwapReads, liq_ratio : LiqRatioReads,
     range_expansion : RangeReads, oi_delta : OiDeltaReads,
     structure_state : StructureReads, breakout : BreakoutReads]

\* The buffered events: type, detail.bias and detail.direction ("none" when the
\* detail has no such key).
ScoreEvent(type, bias, direction) == [type |-> type, bias |-> bias, direction |-> direction]
ScoreEvents ==
    { ScoreEvent("liquidation_spike", "bearish", "none"),
      ScoreEvent("oi_expansion", "none", "none"),
      ScoreEvent("structure_breakout", "none", "bullish") }
ScoreEventLists == UNION {[1..n -> ScoreEvents] : n \in 0..MaxScoreEvents}

\* A decision that gives a tie to short.
direction_of_strict(bull, bear) ==
    IF bull > bear THEN "long" ELSE "short"

\* direction = "long" if bull_votes >= bear_votes else "short"
direction_of(bull, bear) ==
    IF bull >= bear THEN "long" ELSE "short"

\* Every comparison with nan is false.
trend_score(ema) ==
    IF ~ema.nan /\ ema.v > 10 THEN Num(Min2(ema.v * 10, 1000))
    ELSE IF ~ema.nan /\ ema.v < -10 THEN Num(Min2((0 - ema.v) * 10, 1000))
    ELSE Num(0)

vwap_score(d) ==
    IF ~d.nan /\ d.v > 0 THEN Num(Min2(d.v * 5, 1000))
    ELSE IF ~d.nan /\ d.v < 0 THEN Num(Min2((0 - d.v) * 5, 1000))
    ELSE Num(0)

liq_score(r) ==
    IF ~r.nan /\ r.v > 130 THEN Num(Min2((r.v - 100) * 5, 1000))
    ELSE IF ~r.nan /\ r.v < 70 /\ r.v > 0 THEN Num(Min2((100 - r.v) * 20, 1000))
    ELSE Num(200)

\* min(max(range_exp - 1, 0) / 2.0, 1.0): max and min return their first argument
\* unless the other compares greater (smaller), so nan goes through both.
vol_score(r) ==
    IF r.nan THEN NaN ELSE Num(Min2(Max2(r.v - 100, 0) * 5, 1000))

\* min(abs(oi_delta) * 10, 1.0), halved when oi_delta < -0.02.
oi_score(d) ==
    IF d.nan THEN NaN
    ELSE LET base == Min2((IF d.v < 0 THEN 0 - d.v ELSE d.v), 1000)
         IN  IF d.v > 0 THEN Num(base)
             ELSE IF d.v < -200 THEN Num(base \div 2)
             ELSE Num(base)

structure_score(structure_state, breakout) ==
    LET state_part == IF structure_state \in {"uptrend", "downtrend"} THEN 600 ELSE 0
    IN  IF breakout \in {"bullish", "bearish"} THEN Num(Min2(state_part + 400, 1000))
        ELSE Num(state_part)

event_quality_score(events) ==
    Num(Min2(Cardinality({events[i].type : i \in 1..Len(events)}) * 250, 1000))

\* bias = detail.get("bias") or detail.get("direction")
EventBias(e) == IF e.bias # "none" THEN e.bias ELSE e.direction

bull_votes(f, events) ==
      (IF ~f.ema_slope.nan /\ f.ema_slope.v > 10 THEN 1 ELSE 0)
    + (IF ~f.vwap_distance.nan /\ f.vwap_distance.v > 0 THEN 1 ELSE 0)
    + (IF ~f.liq_ratio.nan /\ f.liq_ratio.v <= 130 /\ f.liq_ratio.v < 70 /\ f.liq_ratio.v > 0
       THEN 1 ELSE 0)
    + (IF f.structure_state = "uptrend" THEN 1 ELSE 0)
    + (IF f.breakout = "bullish" THEN 1 ELSE 0)
    + Cardinality({i \in 1..Len(events) : EventBias(events[i]) = "bullish"})

bear_votes(f, events) ==
      (IF ~f.ema_slope.nan /\ f.ema_slope.v <= 10 /\ f.ema_slope.v < -10 THEN 1 ELSE 0)
    + (IF ~f.vwap_distance.nan /\ f.vwap_distance.v <= 0 /\ f.vwap_distance.v < 0 THEN 1 ELSE 0)
    + (IF ~f.liq_ratio.nan /\ f.liq_ratio.v > 130 THEN 1 ELSE 0)
    + (IF f.structure_state = "downtrend" THEN 1 ELSE 0)
    + (IF f.breakout = "bearish" THEN 1 ELSE 0)
    + Cardinality({i \in 1..Len(events) : EventBias(events[i]) = "bearish"})

ComponentNames == {"trend", "liquidation", "volatility", "vwap", "oi", "structure", "event_quality"}

\* compute_signal_score(features, events): a sum with a nan term is nan.
compute_signal_score(f, events) ==
    LET components ==
            [trend |-> trend_score(f.ema_slope),
             liquidation |-> liq_score(f.liq_ratio),
             volatility |-> vol_score(f.range_expansion),
             vwap |-> vwap_score(f.vwap_distance),
             oi |-> oi_score(f.oi_delta),
             structure |-> structure_score(f.structure_state, f.breakout),
             event_quality |-> event_quality_score(events)]
        score ==
            IF \E c \in ComponentNames : components[c].nan THEN NaN
            ELSE Num(  WEIGHTS.trend * components.trend.v
                     + WEIGHTS.liquidation * components.liquidation.v
                     + WEIGHTS.volatility * components.volatility.v
                     + WEIGHTS.vwap * components.vwap.v
                     + WEIGHTS.oi * components.oi.v
                     + WEIGHTS.structure * components.structure.v
                     + WEIGHTS.event_quality * components.event_quality.v)
    IN  [score |-> score,
         direction |-> direction_of(bull_votes(f, events), bear_votes(f, events)),
         components |-> components,
         votes |-> [bull |-> bull_votes(f, events), bear |-> bear_votes(f, events)]]

\* _evaluate_symbol calls compute_signal_score(features, events).
score_call(f, events) ==
    /\ scored.pc = "idle"
    /\ scored' = [pc |-> "done", features |-> f, events |-> events,
                  result |-> compute_signal_score(f, events)]
    /\ UNCHANGED <<trackerVars, engineVars, pipelineButScore>>

\* ------------------------------------------------------------ entry price
\* The price hashes of one symbol: who writes which key, and which keys the
\* arming step of _evaluate_symbol reads.

\* "{symbol}:mark_price"
MarkKey == [name |-> "mark_price", tf |-> ""]
\* "{symbol}:kline:{timeframe}"; tf = "" is the key "{symbol}:kline"
KlineKey(tf) == [name |-> "kline", tf |-> tf]
PriceKeys == {MarkKey} \cup {KlineKey(tf) : tf \in Timeframes \cup {""}}

\* The closes and mark prices the streams deliver.
StreamPrices == {1000, 1200}

\* kline_data = await r.hgetall(f"{symbol}:kline")
EntryKlineKey == KlineKey("")

\* handle_kline: redis_set_hash(f"{symbol}:kline:{timeframe}", candle, ttl=600)
kline_set(tf, c) ==
    /\ price_store' = [price_store EXCEPT ![KlineKey(tf)] = c]
    /\ UNCHANGED arming
    /\ UNCHANGED <<trackerVars, engineVars, pipelineButArm>>

\* handle_mark_price: redis_set_hash(f"{symbol}:mark_price", info, ttl=60)
mark_price_set(p) ==
    /\ price_store' = [price_store EXCEPT ![MarkKey] = p]
    /\ UNCHANGED arming
    /\ UNCHANGED <<trackerVars, engineVars, pipelineButArm>>

\* The ttl of a hash runs out.
price_expire(k) ==
    /\ price_store[k] # None
    /\ price_store' = [price_store EXCEPT ![k] = None]
    /\ UNCHANGED arming
    /\ UNCHANGED <<trackerVars, engineVars, pipelineButArm>>

\* The entry price of the arming step: the mark price when its hash is there,
\* else the close of the kline hash read, else 0.
EntryPrice(store) ==
    IF store[MarkKey] # None THEN store[MarkKey]
    ELSE IF store[EntryKlineKey] # None THEN store[EntryKlineKey]
    ELSE 0

\* The tracker_enabled branch of _evaluate_symbol: the signal is registered at
\* the entry price when entry price and atr are positive.
arm_signal(atr) ==
    /\ arming' = [pc |-> "done", entry_price |-> EntryPrice(price_store), atr |-> atr,
                  registered |-> (EntryPrice(price_store) > 0 /\ atr > 0),
                  store |-> price_store]
    /\ UNCHANGED price_store
    /\ UNCHANGED <<trackerVars, engineVars, pipelineButArm>>

\* ------------------------------------------------------- buffer ageing
\* _signal_loop and _flush_buffers for one symbol, with ages in place of
\* timestamps: the age of an event is now - ts, counted up to AgeCap.

AgeCap == BufferMaxAge + 1
EmptyBuffer == [n |-> 0, first |-> 0, last |-> 0]
Older(age) == IF age < AgeCap THEN age + 1 ELSE AgeCap

\* What _evaluate_symbol does with the buffer: it returns early (an open signal,
\* no features, MTF, score below the threshold) or it emits.
EvalOutcomes == {"skipped", "emitted"}

\* events and (now - events[-1].get("ts", now)) > 30
IsStaleBuffer(buffer) == buffer.n > 0 /\ buffer.last > BufferMaxAge

\* Time passes.
age_tick ==
    /\ age_buffer' = [age_buffer EXCEPT !.first = Older(@), !.last = Older(@)]
    /\ age_queue' = [i \in 1..Len(age_queue) |-> Older(age_queue[i])]
    /\ UNCHANGED <<trackerVars, engineVars, pipelineButAge>>

\* The event engine pushes an event of the symbol.
age_push ==
    /\ Len(age_queue) < AgeQueueMax
    /\ age_queue' = Append(age_queue, 0)
    /\ UNCHANGED age_buffer
    /\ UNCHANGED <<trackerVars, engineVars, pipelineButAge>>

\* _signal_loop pops an event: it is appended to the buffer of its symbol and
\* _evaluate_symbol runs; only an emission pops the buffer.
age_pop(outcome) ==
    /\ age_queue # <<>>
    /\ age_queue' = Tail(age_queue)
    /\ age_buffer' =
          IF outcome = "emitted" THEN EmptyBuffer
          ELSE [n |-> IF age_buffer.n < BufferCountCap THEN age_buffer.n + 1 ELSE BufferCountCap,
                first |-> IF age_buffer.n = 0 THEN Head(age_queue) ELSE age_buffer.first,
                last |-> Head(age_queue)]
    /\ UNCHANGED <<trackerVars, engineVars, pipelineButAge>>

\* wait_for(pop_event(), timeout=1.0) times out on an empty queue:
\* _flush_buffers pops the buffers that are stale.
age_timeout ==
    /\ age_queue = <<>>
    /\ age_buffer' = IF IsStaleBuffer(age_buffer) THEN EmptyBuffer ELSE age_buffer
    /\ UNCHANGED age_queue
    /\ UNCHANGED <<trackerVars, engineVars, pipelineButAge>>


\* ------------------------------------------------- feature slots of a symbol
\* _compute_timeframe_features for the primary timeframe, run by the stream
\* consumer and by the fallback loop.  A snapshot is named by the order in which
\* it was built: the map holds "ts": str(time.time()), so no two are equal.

IdleSlotComp == [pc |-> "idle", snap |-> None]

\* The stream consumer recomputes every symbol of a read; the fallback loop the
\* symbols whose _last_computed is older than FALLBACK_INTERVAL.
MayCompute(loop) == loop = "fallback" => slot_stale

\* The raw data is loaded and the features map is built.
slot_build(loop) ==
    /\ slot_comp[loop].pc = "idle"
    /\ MayCompute(loop)
    /\ snapshots < MaxSnapshots
    /\ snapshots' = snapshots + 1
    /\ slot_comp' = [slot_comp EXCEPT ![loop] = [pc |-> "built", snap |-> snapshots + 1]]
    /\ UNCHANGED <<feature_slots, slot_stale>>
    /\ UNCHANGED <<trackerVars, engineVars, pipelineButSlot>>

\* await redis_set_hash(f"{symbol}:features:{timeframe}", features, ...)
slot_write_timeframe(loop) ==
    /\ slot_comp[loop].pc = "built"
    /\ feature_slots' = [feature_slots EXCEPT !.primary = slot_comp[loop].snap]
    /\ slot_comp' = [slot_comp EXCEPT ![loop].pc = "timeframe_written"]
    /\ UNCHANGED <<slot_stale, snapshots>>
    /\ UNCHANGED <<trackerVars, engineVars, pipelineButSlot>>

\* if timeframe == settings.primary_timeframe:
\*     await redis_set_hash(f"{symbol}:features", features, ...)
\* and, the other timeframes done, _last_computed[symbol] = time.time()
slot_write_default(loop) ==
    /\ slot_comp[loop].pc = "timeframe_written"
    /\ feature_slots' = [feature_slots EXCEPT !.default = slot_comp[loop].snap]
    /\ slot_comp' = [slot_comp EXCEPT ![loop] = IdleSlotComp]
    /\ slot_stale' = FALSE
    /\ UNCHANGED snapshots
    /\ UNCHANGED <<trackerVars, engineVars, pipelineButSlot>>

\* FALLBACK_INTERVAL passes without a completed recomputation.
slot_age ==
    /\ ~slot_stale
    /\ slot_stale' = TRUE
    /\ UNCHANGED <<feature_slots, slot_comp, snapshots>>
    /\ UNCHANGED <<trackerVars, engineVars, pipelineButSlot>>


\* ------------------------------------------------- the emit steps of a signal
\* _evaluate_symbol after the arming step: log_signal, broadcast_signal, the
\* Telegram queue.  Signals are numbered in the order of their emission.

EmitOrder == <<"persist", "broadcast", "enqueue">>

\* insert_signal -> _buffer_write: the row is appended to the write buffer; at
\* _FLUSH_SIZE rows the buffer is flushed, which commits the rows (ok) or drops
\* them with a warning.
BufferSignalRow(buffer, rows, signal, flush_ok) ==
    LET appended == Append(buffer, signal)
    IN  IF Len(appended) >= _FLUSH_SIZE
        THEN [buffer |-> <<>>, rows |-> IF flush_ok THEN rows \o appended ELSE rows]
        ELSE [buffer |-> appended, rows |-> rows]

\* await log_signal(signal): the JSONL append (a failure is logged), the Redis
\* list, insert_signal.
log_signal(file_ok, flush_ok) ==
    /\ emit.pc = "idle"
    /\ emit.signal < MaxEmitted
    /\ LET signal == emit.signal + 1
           b == BufferSignalRow(sqlite_buffer, sqlite_rows, signal, flush_ok)
       IN  /\ emit' = [pc |-> "persisted", signal |-> signal, steps |-> <<"persist">>]
           /\ jsonl_lines' = IF file_ok THEN Append(jsonl_lines, signal) ELSE jsonl_lines
           /\ sqlite_buffer' = b.buffer
           /\ sqlite_rows' = b.rows
    /\ UNCHANGED notify_log
    /\ UNCHANGED <<trackerVars, engineVars, pipelineButEmit>>

\* await broadcast_signal(signal), any exception caught.
broadcast_signal ==
    /\ emit.pc = "persisted"
    /\ emit' = [emit EXCEPT !.pc = "broadcast", !.steps = Append(@, "broadcast")]
    /\ UNCHANGED <<sqlite_buffer, sqlite_rows, jsonl_lines, notify_log>>
    /\ UNCHANGED <<trackerVars, engineVars, pipelineButEmit>>

\* sq.put_nowait(signal); a full queue drops the signal.
notify_put(full) ==
    /\ emit.pc = "broadcast"
    /\ emit' = [emit EXCEPT !.pc = "idle", !.steps = Append(@, "enqueue")]
    /\ notify_log' = IF full THEN notify_log ELSE Append(notify_log, emit.signal)
    /\ UNCHANGED <<sqlite_buffer, sqlite_rows, jsonl_lines>>
    /\ UNCHANGED <<trackerVars, engineVars, pipelineButEmit>>

\* _flush_loop: the timer flushes the buffer, the batch is committed or dropped.
write_behind_flush(ok) ==
    /\ sqlite_buffer # <<>>
    /\ sqlite_buffer' = <<>>
    /\ sqlite_rows' = IF ok THEN sqlite_rows \o sqlite_buffer ELSE sqlite_rows
    /\ UNCHANGED <<emit, jsonl_lines, notify_log>>
    /\ UNCHANGED <<trackerVars, engineVars, pipelineButEmit>>

InSeq(x, seq) == \E i \in 1..Len(seq) : seq[i] = x


\* ------------------------------------------------- frames of a connection
\* The message loop of BaseCollector._run_connection.  A frame is numbered by its
\* arrival and is valid JSON the handler takes ("ok"), not valid JSON
\* ("bad_json"), or valid JSON on which the handler raises ("handler_raises").

ws_reconnect_delay == 3072
FrameKinds == {"ok", "bad_json", "handler_raises"}
NoFrame == [n |-> 0, kind |-> ""]

\* Faulty variant of AfterFrameError: the exception leaves the message loop and
\* the connection is given up for a reconnect.
AfterFrameError_reconnect(l) ==
    [l EXCEPT !.pc = "sleeping", !.reconnects = IF @ < MaxReconnects THEN @ + 1 ELSE @]

\* except json.JSONDecodeError / except Exception around one frame: a log line,
\* and the loop goes on.
AfterFrameError(l) == l

Logged(f, result) == [n |-> f.n, result |-> result]

\* The server sends a frame.
frame_arrive(kind) ==
    /\ link.pc = "connected"
    /\ Len(frame_log) + Len(inbox) + (IF frame = NoFrame THEN 0 ELSE 1) < MaxFrames
    /\ inbox' = Append(inbox, [n |-> IF inbox # <<>> THEN inbox[Len(inbox)].n + 1
                                     ELSE IF frame # NoFrame THEN frame.n + 1
                                     ELSE Len(frame_log) + 1,
                               kind |-> kind])
    /\ UNCHANGED <<link, frame, frame_log>>
    /\ UNCHANGED <<trackerVars, engineVars, pipelineButFrame>>

\* async for raw_msg in ws: the next frame; "if not self._running: break";
\* json.loads(raw_msg) raises on a frame that is not JSON, else the handler is
\* awaited.
frame_next ==
    /\ link.pc = "connected"
    /\ frame = NoFrame
    /\ inbox # <<>>
    /\ inbox' = Tail(inbox)
    /\ IF ~link.running
       THEN /\ link' = [link EXCEPT !.pc = "done"]
            /\ UNCHANGED <<frame, frame_log>>
       ELSE IF Head(inbox).kind = "bad_json"
       THEN /\ link' = AfterFrameError(link)
            /\ frame_log' = Append(frame_log, Logged(Head(inbox), "bad_json"))
            /\ UNCHANGED frame
       ELSE /\ frame' = Head(inbox)
            /\ UNCHANGED <<link, frame_log>>
    /\ UNCHANGED <<trackerVars, engineVars, pipelineButFrame>>

\* await self.handler(msg) returns or raises.
handler_end ==
    /\ frame # NoFrame
    /\ frame' = NoFrame
    /\ IF frame.kind = "handler_raises"
       THEN /\ link' = AfterFrameError(link)
            /\ frame_log' = Append(frame_log, Logged(frame, "handler_error"))
       ELSE /\ frame_log' = Append(frame_log, Logged(frame, "handled"))
            /\ UNCHANGED link
    /\ UNCHANGED inbox
    /\ UNCHANGED <<trackerVars, engineVars, pipelineButFrame>>

\* The iteration raises ConnectionClosed: the frames not yet iterated are gone;
\* "if self._running: await asyncio.sleep(backoff)".
link_lost ==
    /\ link.pc = "connected"
    /\ frame = NoFrame
    /\ link.reconnects < MaxReconnects
    /\ link' = [link EXCEPT !.pc = IF link.running THEN "sleeping" ELSE "done",
                             !.reconnects = @ + 1]
    /\ inbox' = <<>>
    /\ UNCHANGED <<frame, frame_log>>
    /\ UNCHANGED <<trackerVars, engineVars, pipelineButFrame>>

\* The sleep is over: backoff = min(backoff * 1.5, 30), and "while self._running".
link_wake ==
    /\ link.pc = "sleeping"
    /\ link' = [link EXCEPT !.pc = IF link.running THEN "connecting" ELSE "done",
                             !.backoff = next_backoff(link.backoff)]
    /\ UNCHANGED <<inbox, frame, frame_log>>
    /\ UNCHANGED <<trackerVars, engineVars, pipelineButFrame>>

\* websockets.connect succeeds (backoff is reset) or raises.
link_open(ok) ==
    /\ link.pc = "connecting"
    /\ ok \/ link.reconnects < MaxReconnects
    /\ link' = IF ok THEN [link EXCEPT !.pc = "connected", !.backoff = ws_reconnect_delay]
               ELSE [link EXCEPT !.pc = IF link.running THEN "sleeping" ELSE "done",
                                 !.reconnects = @ + 1]
    /\ UNCHANGED <<inbox, frame, frame_log>>
    /\ UNCHANGED <<trackerVars, engineVars, pipelineButFrame>>

\* BaseCollector.stop() sets _running = False.
link_stop ==
    /\ link.running
    /\ link.pc # "done"
    /\ link' = [link EXCEPT !.running = FALSE]
    /\ UNCHANGED <<inbox, frame, frame_log>>
    /\ UNCHANGED <<trackerVars, engineVars, pipelineButFrame>>


\* ------------------------------------------------- the closed ring at its cap
\* _close_signal's archive step and get_closed_signals over many closes.

NoView == [limit |-> None, result |-> <<>>]
ViewLimits == {0, 1, 50}

Reversed(seq) == [i \in 1..Len(seq) |-> seq[Len(seq) + 1 - i]]

\* seq[-limit:]: the last limit entries; -0 is 0, so limit 0 takes the whole list.
LastEntries(seq, limit) ==
    IF limit = 0 \/ limit >= Len(seq) THEN seq
    ELSE SubSeq(seq, Len(seq) - limit + 1, Len(seq))

\* list(reversed(_closed_signals[-limit:]))
get_closed_signals_ret(ring, limit) == Reversed(LastEntries(ring, limit))

\* A signal is closed: _closed_signals.append(sig.to_dict()) and the pop(0).
ring_close ==
    /\ closed_count < _MAX_CLOSED + MaxOverflow
    /\ closed_count' = closed_count + 1
    /\ closed_ring' = RingAppend(closed_ring, closed_count + 1)
    /\ closed_view' = NoView
    /\ UNCHANGED <<trackerVars, engineVars, pipelineButRing>>

get_closed_signals(limit) ==
    /\ closed_view' = [limit |-> limit, result |-> get_closed_signals_ret(closed_ring, limit)]
    /\ UNCHANGED <<closed_ring, closed_count>>
    /\ UNCHANGED <<trackerVars, engineVars, pipelineButRing>>

\* ------------------------------------------------- tracker specification

\* Nothing counted, logged, pushed or popped yet.
InitPipeline ==
    /\ _counters = [events_triggered |-> 0, event_type |-> 0]
    /\ warned = 0
    /\ pushed = <<>>
    /\ popped = <<>>
    /\ history = [k \in HistoryKeys |-> <<>>]
    /\ pending = [k \in HistoryKeys |-> FALSE]
    /\ loaded = [key |-> "", items |-> <<>>]
    /\ last_write = NoWrite
    /\ bus = 0
    /\ ingest = [invalid |-> [k \in Kinds |-> 0], messages |-> [k \in Kinds |-> 0]]
    /\ last_msg = NoMsg
    /\ handled = 0
    /\ _last_computed_age = [s \in Symbols |-> FALLBACK_INTERVAL + 1]
    /\ comp = [l \in FeatureLoops |-> [s \in Symbols |-> "none"]]
    /\ stream_pc = "xread"
    /\ fallback_pc = "check"
    /\ sleep_left = 0
    /\ runs = [l \in FeatureLoops |-> [s \in Symbols |-> 0]]
    /\ conn = NoConn
    /\ collector_running = FALSE
    /\ ltask = [t \in LongTasks |-> "none"]
    /\ lifespan_pc = "init"
    /\ _clients = [c \in ClientIds |-> "absent"]
    /\ emission = NoEmission
    /\ _signal_queue = <<>>
    /\ sink_counters = [signals_emitted |-> 0, telegram_queue_full |-> 0]
    /\ delivered = 0
    /\ _write_buffer = <<>>
    /\ _buffer_lock = "free"
    /\ batch = <<>>
    /\ tx = <<>>
    /\ db_rows = <<>>
    /\ db_pc = "open"
    /\ db_log = [enqueued |-> 0, at_close |-> 0, failed |-> FALSE]
    /\ mtf_store = [tf \in Timeframes |-> Absent]
    /\ gate = PendingGate
    /\ scored = [pc |-> "idle"]
    /\ closed_ring = <<>>
    /\ closed_count = 0
    /\ closed_view = NoView
    /\ link = [pc |-> "connected", running |-> TRUE, backoff |-> ws_reconnect_delay, reconnects |-> 0]
    /\ inbox = <<>>
    /\ frame = NoFrame
    /\ frame_log = <<>>
    /\ emit = [pc |-> "idle", signal |-> 0, steps |-> <<>>]
    /\ sqlite_buffer = <<>>
    /\ sqlite_rows = <<>>
    /\ jsonl_lines = <<>>
    /\ notify_log = <<>>
    /\ feature_slots = [primary |-> None, default |-> None]
    /\ slot_comp = [l \in FeatureLoops |-> IdleSlotComp]
    /\ slot_stale = TRUE
    /\ snapshots = 0
    /\ age_buffer = EmptyBuffer
    /\ age_queue = <<>>
    /\ price_store = [k \in PriceKeys |-> None]
    /\ arming = [pc |-> "idle", entry_price |-> 0, atr |-> 0, registered |-> FALSE,
                 store |-> [k \in PriceKeys |-> None]]
    /\ _prev_features = NoPrev
    /\ replay = [pc |-> "idle", features |-> NoFeatures, prev |-> NoPrev, first |-> {}, second |-> {}]

vars == <<trackerVars, engineVars, pipelineVars>>

Init ==
    /\ now = 0
    /\ sigs = <<>>
    /\ _open_signals = <<>>
    /\ _closed_signals = <<>>
    /\ _running = FALSE
    /\ _monitor_task = "none"
    /\ sweep = NoSweep
    /\ InitPipeline
    /\ cfg = DefaultSettings
    /\ app = "init"
    /\ task = [l \in Loops |-> "none"]
    /\ features = [s \in Symbols |-> FALSE]
    /\ _queue = <<>>
    /\ _event_buffer = [s \in Symbols |-> <<>>]
    /\ _cooldowns = [s \in Symbols |-> None]
    /\ eval = IdleEval
    /\ last_signal = NoSignal

MarkReads == ReadPrices \cup {None}
KlineReads == {None, 0, 1200}
TtlArgs == {None}

Next ==
    \/ Tick
    \/ \E s \in Symbols, d \in Directions, e \in EntryPrices, a \in AtrValues, ttl \in TtlArgs :
          register_signal(s, d, e, a, None, None, ttl)
    \/ \E s \in Symbols : has_open_signal(s)
    \/ \E s \in Symbols : get_open_signal(s)
    \/ get_all_open_signals
    \/ \E s \in Symbols, p \in ManualPrices : close_signal_manual(s, p)
    \/ start_price_monitor
    \/ stop_price_monitor
    \/ sweep_begin
    \/ \E m \in MarkReads, k \in KlineReads : sweep_resume(m, k)
    \/ sweep_read_error

Spec == Init /\ [][Next]_vars

\* The tracker with startup recovery: the calls of Next, and
\* restore_open_signals_from_db on the rows of the signals table, which get_signals
\* returns newest first (ORDER BY timestamp DESC).
NextRecovery ==
    \/ Next
    \/ \E r \in DbRows(now) : restore_open_signals_from_db(<<r>>)
    \/ \E r1, r2 \in DbRows(now) :
          /\ r1.timestamp >= r2.timestamp
          /\ restore_open_signals_from_db(<<r1, r2>>)

SpecRecovery == Init /\ [][NextRecovery]_vars

\* The application as main.lifespan wires it: the feature, event and signal loops,
\* the clock, and the /chat endpoint's call of get_all_open_signals.
InitEngine ==
    /\ now = 0
    /\ sigs = <<>>
    /\ _open_signals = <<>>
    /\ _closed_signals = <<>>
    /\ _running = FALSE
    /\ _monitor_task = "none"
    /\ sweep = NoSweep
    /\ InitPipeline
    /\ cfg \in Settings
    /\ app = "init"
    /\ task = [l \in Loops |-> "none"]
    /\ features = [s \in Symbols |-> FALSE]
    /\ _queue = <<>>
    /\ _event_buffer = [s \in Symbols |-> <<>>]
    /\ _cooldowns = [s \in Symbols |-> None]
    /\ eval = IdleEval
    /\ last_signal = NoSignal

NextEngine ==
    \/ Tick
    \/ lifespan_startup
    \/ lifespan_shutdown
    \/ \E ok \in SUBSET Symbols : stream_iteration(ok)
    \/ stream_error
    \/ \E ok \in SUBSET Symbols : fallback_iteration(ok)
    \/ \E found \in SUBSET Symbols : event_sweep(found)
    \/ signal_pop
    \/ signal_timeout
    \/ \E mtf \in (IF cfg.mtf_alignment_required THEN MtfReads \cup {MtfRaises} ELSE {MtfNotRead}),
          score \in Scores, d \in Directions,
          ai \in (IF cfg.ai_enabled THEN AiReads ELSE {"none"}) :
          signal_score(mtf, score, d, ai)
    \/ \E m \in EntryMarkReads, k \in EntryKlineReads, a \in AtrReads : signal_arm(m, k, a)
    \/ signal_raise
    \/ get_all_open_signals

SpecEngine == InitEngine /\ [][NextEngine]_vars

\* The application under the scheduling of the event loop: the clock advances, the
\* startup completes, and the consumer task runs whenever it is ready.  Nothing
\* obliges the market to produce events, features or requests.
FairSpec ==
    /\ InitEngine
    /\ [][NextEngine]_vars
    /\ WF_vars(Tick)
    /\ WF_vars(lifespan_startup)
    /\ WF_vars(signal_pop)
    /\ WF_vars(signal_timeout)
    /\ WF_vars(\E mtf \in MtfReads, score \in Scores, d \in Directions, ai \in AiReads :
                  signal_score(mtf, score, d, ai))
    /\ WF_vars(\E m \in EntryMarkReads, k \in EntryKlineReads, a \in AtrReads : signal_arm(m, k, a))

\* register_signal called directly, with explicit and default multipliers and ttl.
RegEntryPrices == {1000}
RegAtrValues == {20, 100}
TpMultArgs == {None, 0, 30}
SlMultArgs == {None, 15}
RegTtlArgs == {None, 2}

NextReg ==
    \/ Tick
    \/ \E s \in Symbols, d \in Directions, e \in RegEntryPrices, a \in RegAtrValues,
          tm \in TpMultArgs, sm \in SlMultArgs, ttl \in RegTtlArgs :
          register_signal(s, d, e, a, tm, sm, ttl)

SpecReg == Init /\ [][NextReg]_vars

\* Boot: startup recovery on the rows a previous run left in the signals table,
\* and the reads of the Tracker that follow.
NextBoot ==
    \/ Tick
    \/ \E r \in DbRows(now) : restore_open_signals_from_db(<<r>>)
    \/ \E r1, r2 \in DbRows(now) :
          /\ r1.timestamp >= r2.timestamp
          /\ restore_open_signals_from_db(<<r1, r2>>)
    \/ \E s \in Symbols : has_open_signal(s)
    \/ get_all_open_signals

SpecBoot == Init /\ [][NextBoot]_vars

\* Manual closes at prices next to the entry, of signals registered at a price of
\* seven significant digits (0.03 against 0.03000001).
PnlEntryPrices == {3000000}
PnlAtrValues == {1000}
PnlClosePrices == {2999999, 3000000, 3000001, 3000300}

NextPnl ==
    \/ Tick
    \/ \E s \in Symbols, d \in Directions, e \in PnlEntryPrices, a \in PnlAtrValues :
          register_signal(s, d, e, a, None, None, None)
    \/ \E s \in Symbols, p \in PnlClosePrices : close_signal_manual(s, p)

SpecPnl == Init /\ [][NextPnl]_vars

\* ---------------------------------------------------- queue specification
\* The event queue between its producer and its consumer.  The producer is the push
\* loop of _scan_symbol: push_event(event), then inc("events_triggered") and
\* inc("event_<type>"); push_event logs a warning when put_nowait raises QueueFull.
\* The consumer calls pop_event again and again.  Events are told apart by ts, the
\* serial number of the push.

\* put_nowait takes the event iff the queue is not full.
put_nowait_ok(q) == Len(q) < EventQueueMaxsize

scan_push(symbol) ==
    /\ Len(pushed) < MaxPushes
    /\ LET event == [symbol |-> symbol, ts |-> Len(pushed) + 1]
       IN  /\ _queue' = push_event(_queue, event)
           /\ warned' = IF put_nowait_ok(_queue) THEN warned ELSE warned + 1
           /\ pushed' = Append(pushed, [event |-> event, accepted |-> put_nowait_ok(_queue)])
    /\ _counters' = [_counters EXCEPT !.events_triggered = @ + 1, !.event_type = @ + 1]
    /\ UNCHANGED popped
    /\ UNCHANGED <<cfg, app, task, features, _event_buffer, _cooldowns, eval, last_signal>>
    /\ UNCHANGED trackerVars
    /\ UNCHANGED pipelineButQueue

\* pop_event(): await q.get(), which waits while the queue is empty.
pop_event ==
    /\ _queue # <<>>
    /\ popped' = Append(popped, Head(_queue))
    /\ _queue' = Tail(_queue)
    /\ UNCHANGED <<_counters, warned, pushed>>
    /\ UNCHANGED <<cfg, app, task, features, _event_buffer, _cooldowns, eval, last_signal>>
    /\ UNCHANGED trackerVars
    /\ UNCHANGED pipelineButQueue

NextQueue ==
    \/ \E s \in Symbols : scan_push(s)
    \/ pop_event

SpecQueue == Init /\ [][NextQueue]_vars /\ WF_vars(pop_event)

\* ---------------------------------------------------- store specification
\* Well-formed payloads arrive for the four kinds that keep a history; every handler
\* runs in its own task (one connection per stream kind, one poller per REST kind),
\* the feature engine reads the lists in between.

GoodKline == [s |-> "ok", t |-> "ok", o |-> "finite", h |-> "finite", l |-> "finite",
              c |-> "finite", v |-> "finite", q |-> "finite", x |-> "closed"]
GoodDepth == [stream |-> "ok", bids |-> "list", asks |-> "list"]
GoodMarkPrice == [s |-> "ok", p |-> "finite", i |-> "finite", r |-> "finite"]
GoodForceOrder == [s |-> "ok", S |-> "SELL", p |-> "finite", q |-> "finite"]
GoodOpenInterest == [openInterest |-> "finite"]
GoodFunding == [lastFundingRate |-> "finite", markPrice |-> "finite", indexPrice |-> "finite"]

NextStore ==
    \/ handled < MaxAppends /\ handle_kline(GoodKline, TRUE)
    \/ handled < MaxAppends /\ handle_force_order(GoodForceOrder, TRUE)
    \/ handled < MaxAppends /\ poll_open_interest(GoodOpenInterest, TRUE)
    \/ handled < MaxAppends /\ poll_funding_rate(GoodFunding, TRUE)
    \/ \E key \in HistoryKeys : append_finish(key)
    \/ \E key \in HistoryKeys : _load_list(key)

SpecStore == Init /\ [][NextStore]_vars

\* --------------------------------------------------- ingest specification
\* Payloads of every kind, well-formed or with one defective field, and store
\* commands that may fail.

NumDefects == {"nan", "inf", "text", "missing"}

\* The payload good with the value of one of the fields replaced by one of the values.
Variants(good, fields, values) ==
    {[good EXCEPT ![f] = d] : f \in fields, d \in values}

KlinePayloads ==
    {GoodKline, [GoodKline EXCEPT !["x"] = "open"]}
        \cup Variants(GoodKline, {"o", "h", "l", "c", "v", "q"}, NumDefects)
        \cup Variants(GoodKline, {"s", "t", "x"}, {"missing"})
DepthPayloads ==
    {GoodDepth} \cup Variants(GoodDepth, {"stream"}, {"missing"})
                \cup Variants(GoodDepth, {"bids", "asks"}, {"missing", "text"})
MarkPricePayloads ==
    {GoodMarkPrice} \cup Variants(GoodMarkPrice, {"s"}, {"missing"})
                    \cup Variants(GoodMarkPrice, {"p", "i", "r"}, NumDefects)
ForceOrderPayloads ==
    {GoodForceOrder, [GoodForceOrder EXCEPT !["S"] = "BUY"]}
        \cup Variants(GoodForceOrder, {"s"}, {"missing"})
        \cup Variants(GoodForceOrder, {"S"}, {"missing", "HOLD"})
        \cup Variants(GoodForceOrder, {"p", "q"}, NumDefects)
OpenInterestPayloads ==
    {GoodOpenInterest} \cup Variants(GoodOpenInterest, {"openInterest"}, NumDefects)
FundingPayloads ==
    {GoodFunding} \cup Variants(GoodFunding, {"lastFundingRate", "markPrice", "indexPrice"}, NumDefects)

NextIngest ==
    \/ \E p \in KlinePayloads, ok \in BOOLEAN : handled < MaxPayloads /\ handle_kline(p, ok)
    \/ \E p \in DepthPayloads, ok \in BOOLEAN : handled < MaxPayloads /\ handle_depth(p, ok)
    \/ \E p \in MarkPricePayloads, ok \in BOOLEAN : handled < MaxPayloads /\ handle_mark_price(p, ok)
    \/ \E p \in ForceOrderPayloads, ok \in BOOLEAN : handled < MaxPayloads /\ handle_force_order(p, ok)
    \/ \E p \in OpenInterestPayloads, ok \in BOOLEAN : handled < MaxPayloads /\ poll_open_interest(p, ok)
    \/ \E p \in FundingPayloads, ok \in BOOLEAN : handled < MaxPayloads /\ poll_funding_rate(p, ok)
    \/ \E key \in HistoryKeys : append_finish(key)

SpecIngest == Init /\ [][NextIngest]_vars

\* -------------------------------------------------- feature specification
\* Both loops run; update notifications may or may not arrive (stream_read is not
\* fair), time passes, the fallback loop is scheduled, and every store command of
\* a computation returns or raises.

NextFeatures ==
    \/ feat_tick
    \/ \E dirty \in SUBSET Symbols : stream_read(dirty)
    \/ stream_gathered
    \/ fallback_check
    \/ fallback_gathered
    \/ fallback_wake
    \/ \E l \in FeatureLoops, s \in Symbols, ok \in BOOLEAN : compute_end(l, s, ok)

SpecFeatures ==
    /\ Init
    /\ [][NextFeatures]_vars
    /\ WF_vars(feat_tick)
    /\ WF_vars(fallback_check)
    /\ WF_vars(fallback_gathered)
    /\ WF_vars(fallback_wake)
    /\ \A s \in Symbols : WF_vars(\E ok \in BOOLEAN : compute_end("fallback", s, ok))

\* ----------------------------------------------- connection specification
\* The network fails or succeeds as it likes; a sleep ends.

NextConn ==
    \/ \E delay \in ReconnectDelays : collector_start(delay)
    \/ connect_ok
    \/ connect_lost
    \/ connect_retry
    \/ collector_stop

SpecConn == Init /\ [][NextConn]_vars /\ WF_vars(connect_retry)

\* ------------------------------------------------- lifespan specification

NextLifespan ==
    \/ \E delay \in ReconnectDelays : lifespan_start(delay)
    \/ connect_ok
    \/ connect_lost
    \/ connect_retry
    \/ signal_loop_raise
    \/ lifespan_resume
    \/ stop_signal_engine
    \/ stop_event_engine
    \/ stop_feature_engine
    \/ stop_collectors
    \/ close_db

SpecLifespan == Init /\ [][NextLifespan]_vars

\* ---------------------------------------------------- sinks specification

NextSinks ==
    \/ \E c \in ClientIds, to \in {"absent", "fast", "slow"} : client_change(c, to)
    \/ emit_begin
    \/ \E c \in ClientIds : broadcast_next(c)
    \/ send_json_end
    \/ telegram_put
    \/ telegram_get

SpecSinks == Init /\ [][NextSinks]_vars

\* --------------------------------------------------- buffer specification

NextDb ==
    \/ _buffer_write
    \/ timer_flush
    \/ \E ok \in BOOLEAN : flush_end(ok)
    \/ close_db_cancel
    \/ \E k \in 0..MaxRows : flush_cancelled_in_flush(k)
    \/ \E ok \in BOOLEAN : flush_cancelled_in_sleep(ok)
    \/ \E ok \in BOOLEAN : close_db_final(ok)

SpecDb == Init /\ [][NextDb]_vars

\* ----------------------------------------------------- scan specification

NextScan ==
    \/ replay.pc = "idle" /\ \E f \in FeatureSnapshots : _scan_symbol(f)
    \/ replay.pc = "idle" /\ \E f \in FeatureSnapshots : replay_first(f)
    \/ replay_second
    \/ rescan

SpecScan == Init /\ [][NextScan]_vars

\* ------------------------------------------------------ MTF specification

NextMtf ==
    \/ gate.pc = "pending" /\ mtf_store = [tf \in Timeframes |-> Absent]
          /\ \E store \in [Timeframes -> TfHashes \cup {Absent}] : mtf_features_written(store)
    \/ \E read_ok \in BOOLEAN, score \in Scores : mtf_gate(read_ok, score)

SpecMtf == Init /\ [][NextMtf]_vars

\* ---------------------------------------------------- score specification

NextScore ==
    /\ scored.pc = "idle"
    /\ \E f \in ScoreFeatures, events \in ScoreEventLists : score_call(f, events)

SpecScore == Init /\ [][NextScore]_vars

\* ------------------------------------------------------ arming specification

NextArm ==
    \/ \E tf \in Timeframes, c \in StreamPrices : kline_set(tf, c)
    \/ \E p \in StreamPrices : mark_price_set(p)
    \/ \E k \in PriceKeys : price_expire(k)
    \/ \E atr \in AtrReads : arm_signal(atr)

SpecArm == Init /\ [][NextArm]_vars

\* ------------------------------------------------- buffer age specification

NextAge ==
    \/ age_tick
    \/ age_push
    \/ \E outcome \in EvalOutcomes : age_pop(outcome)
    \/ age_timeout

\* Time passes and the consumer task runs: it pops what is on the queue and its
\* wait times out on an empty queue.  Nothing obliges events to arrive or to stop.
SpecAge ==
    /\ Init
    /\ [][NextAge]_vars
    /\ WF_vars(age_tick)
    /\ WF_vars(\E outcome \in EvalOutcomes : age_pop(outcome))
    /\ WF_vars(age_timeout)


\* ---------------------------------------------- feature slots specification

NextSlots ==
    \/ \E loop \in FeatureLoops : slot_build(loop)
    \/ \E loop \in FeatureLoops : slot_write_timeframe(loop)
    \/ \E loop \in FeatureLoops : slot_write_default(loop)
    \/ slot_age

SpecSlots == Init /\ [][NextSlots]_vars


\* ---------------------------------------------------- emit specification

NextEmit ==
    \/ \E file_ok, flush_ok \in BOOLEAN : log_signal(file_ok, flush_ok)
    \/ broadcast_signal
    \/ \E full \in BOOLEAN : notify_put(full)
    \/ \E ok \in BOOLEAN : write_behind_flush(ok)

SpecEmit == Init /\ [][NextEmit]_vars


\* --------------------------------------------------- frames specification

NextFrames ==
    \/ \E kind \in FrameKinds : frame_arrive(kind)
    \/ frame_next
    \/ handler_end
    \/ link_lost
    \/ link_wake
    \/ \E ok \in BOOLEAN : link_open(ok)
    \/ link_stop

SpecFrames == Init /\ [][NextFrames]_vars


\* ----------------------------------------------------- ring specification

NextRing ==
    \/ ring_close
    \/ \E limit \in ViewLimits : get_closed_signals(limit)

SpecRing == Init /\ [][NextRing]_vars

\* =================================================================== claims

\* The places of symbol s in the dict, and the ring entries taken of object id.
EntriesOf(d, s) == {i \in 1..Len(d) : d[i][1] = s}
ClosesOf(ring, id) == {i \in 1..Len(ring) : ring[i].id = id}
RegisterInputs == Symbols \X Directions \X EntryPrices \X AtrValues \X TtlArgs

C2_EmittedOnlyWhenGated ==
    last_signal # NoSignal =>
        /\ last_signal.features_snapshot
        /\ last_signal.score >= signal_score_threshold
        /\ cfg.tracker_enabled => last_signal.tracker_reported = "no_open"
        /\ cfg.mtf_alignment_required => (last_signal.mtf_details /\ last_signal.mtf_aligned)

\* C3: no loop task ends by an exception: every task that was started is alive or
\* was cancelled.
C3_LoopsSurvive ==
    \A l \in Loops : task[l] # "crashed"

\* C4: a register_signal for a symbol whose tracked signal is open in the opposite
\* direction closes that signal exactly once, as reversed at the new entry price,
\* and leaves exactly one open signal for the symbol, the new one.
C4_ReversalClosesOnce ==
    [][\A in \in RegisterInputs :
        LET s == in[1]
            old == DictGet(_open_signals, s)
        IN  ( /\ register_signal(s, in[2], in[3], in[4], None, None, in[5])
              /\ old # None
              /\ is_open(sigs[old])
              /\ sigs[old].direction # in[2] )
            => /\ sigs'[old].outcome = "reversed"
               /\ sigs'[old].close_price = in[3]
               /\ Len(_closed_signals') = Len(_closed_signals) + 1
               /\ Cardinality(ClosesOf(_closed_signals', old)) = 1
               /\ _closed_signals'[Len(_closed_signals')].id = old
               /\ _closed_signals'[Len(_closed_signals')].outcome = "reversed"
               /\ _closed_signals'[Len(_closed_signals')].close_price = in[3]
               /\ Cardinality(EntriesOf(_open_signals', s)) = 1
               /\ DictGet(_open_signals', s) = Len(sigs) + 1
               /\ is_open(sigs'[Len(sigs) + 1])
               /\ sigs'[Len(sigs) + 1].direction = in[2]
    ]_vars

\* C4 witness: a signal was closed as reversed at an entry price other than its own
\* and the symbol has an open signal of the other direction.
C4_Witness ==
    \E i \in 1..Len(_closed_signals) :
        LET c == _closed_signals[i]
            cur == DictGet(_open_signals, c.symbol)
        IN  /\ c.outcome = "reversed"
            /\ c.close_price # c.entry_price
            /\ cur # None
            /\ is_open(sigs[cur])
            /\ sigs[cur].direction # c.direction

\* C5: registering a signal for a symbol that already tracks an open signal of the
\* same direction leaves exactly one tracked entry for the symbol and archives
\* nothing.
C5_SameDirectionOneEntry ==
    [][\A in \in RegisterInputs :
        LET s == in[1]
            old == DictGet(_open_signals, s)
        IN  ( /\ register_signal(s, in[2], in[3], in[4], None, None, in[5])
              /\ old # None
              /\ is_open(sigs[old])
              /\ sigs[old].direction = in[2] )
            => /\ Cardinality(EntriesOf(_open_signals', s)) = 1
               /\ DictGet(_open_signals', s) = Len(sigs) + 1
               /\ Len(_open_signals') = Len(_open_signals)
               /\ _closed_signals' = _closed_signals
    ]_vars

\* C5 witness: the same signal (symbol, direction, entry) was registered twice, and
\* the table holds one entry.
C5_Witness ==
    /\ Len(sigs) = 2
    /\ sigs[1].symbol = sigs[2].symbol
    /\ sigs[1].direction = sigs[2].direction
    /\ sigs[1].entry_price = sigs[2].entry_price
    /\ is_open(sigs[1])
    /\ Len(_open_signals) = 1
    /\ _closed_signals = <<>>

\* Object id exists, is open and past its TTL; object id exists and is closed.
C6_Overdue(id) == IF Len(sigs) >= id THEN is_open(sigs[id]) /\ PastTtl(sigs[id], now) ELSE FALSE
C6_Resolved(id) == IF Len(sigs) >= id THEN ~is_open(sigs[id]) ELSE FALSE

\* C6: a tracked signal whose TTL has elapsed is eventually closed, whether or not
\* another event arrives for its symbol.
C6_ExpiredEventuallyClosed ==
    \A id \in 1..MaxSignals : C6_Overdue(id) ~> C6_Resolved(id)

\* What C7 says the sweep does with an open signal and the prices it read.
C7_Expected(sig, mark, kline) ==
    LET price == IF mark # None THEN mark ELSE kline
    IN  IF price = None \/ price <= 0 THEN "open"
        ELSE IF sig.direction = "long" /\ price >= sig.tp_price THEN "tp_hit"
        ELSE IF sig.direction = "long" /\ price <= sig.sl_price THEN "sl_hit"
        ELSE IF sig.direction = "short" /\ price <= sig.tp_price THEN "tp_hit"
        ELSE IF sig.direction = "short" /\ price >= sig.sl_price THEN "sl_hit"
        ELSE "open"

\* C7: when the sweep checks an open signal that is within its TTL at the sweep's
\* clock, the price is
\* the mark price if present, else the kline close; no price or a price <= 0 leaves
\* the signal as it is; a long closes tp_hit at price >= tp_price, else sl_hit at
\* price <= sl_price, else stays open; a short closes tp_hit at price <= tp_price,
\* else sl_hit at price >= sl_price, else stays open; a close is at the price read.
C7_SweepPriceCheck ==
    [][\A m \in MarkReads, k \in KlineReads :
        ( /\ sweep_resume(m, k)
          /\ is_open(sigs[Head(sweep.items)[2]])
          /\ ~(sweep.now - sigs[Head(sweep.items)[2]].opened_at > sigs[Head(sweep.items)[2]].ttl) )
        => LET id == Head(sweep.items)[2]
               exp == C7_Expected(sigs[id], m, k)
           IN  /\ sigs'[id].outcome = exp
               /\ exp = "open" => sigs'[id] = sigs[id]
               /\ exp # "open" => sigs'[id].close_price = (IF m # None THEN m ELSE k)
    ]_vars

\* C7 witness: sweeps have closed one signal as tp_hit and one as sl_hit.
C7_Witness ==
    \E i, j \in 1..Len(_closed_signals) :
        /\ _closed_signals[i].outcome = "tp_hit"
        /\ _closed_signals[j].outcome = "sl_hit"

\* The objects a step closes as expired: new or not expired before, expired after.
C8_NewlyExpired ==
    {id \in 1..Len(sigs') :
        /\ sigs'[id].outcome = "expired"
        /\ (id > Len(sigs) \/ sigs[id].outcome # "expired")}

\* C8: a signal is closed as expired only when now - opened_at > ttl; a sweep
\* closes as tp_hit or sl_hit only a signal that is not past its TTL at the sweep's
\* clock (the TTL check comes first); and every close as expired, by the sweep, by
\* has_open_signal, get_open_signal, get_all_open_signals or by startup recovery,
\* records close_price = entry_price and pnl_pct = 0.
C8_ExpiredClose ==
    /\ [][\A id \in C8_NewlyExpired : now - sigs'[id].opened_at > sigs'[id].ttl]_vars
    /\ [][\A m \in MarkReads, k \in KlineReads :
            sweep_resume(m, k) =>
                LET id == Head(sweep.items)[2]
                IN  (sigs'[id].outcome \in {"tp_hit", "sl_hit"} /\ sigs'[id] # sigs[id])
                    => ~(sweep.now - sigs[id].opened_at > sigs[id].ttl)]_vars
    /\ [][sweep_begin =>
            \A i \in 1..Len(_open_signals) :
                LET id == _open_signals[i][2]
                IN  sigs'[id].outcome \in {"tp_hit", "sl_hit"} => sigs'[id] = sigs[id]]_vars
    /\ [](\A id \in 1..Len(sigs) :
            sigs[id].outcome = "expired" =>
                sigs[id].close_price = sigs[id].entry_price /\ sigs[id].pnl_pct = 0)
    /\ [](\A i \in 1..Len(_closed_signals) :
            _closed_signals[i].outcome = "expired" =>
                /\ _closed_signals[i].close_price = _closed_signals[i].entry_price
                /\ _closed_signals[i].pnl_pct = 0)

\* C8 witness: a signal registered by the engine (a short) has been archived as
\* expired, and a signal restored from a database row has been closed as expired.
C8_Witness ==
    /\ \E i \in 1..Len(_closed_signals) :
          /\ _closed_signals[i].outcome = "expired"
          /\ _closed_signals[i].direction = "short"
          /\ now - _closed_signals[i].opened_at > _closed_signals[i].ttl
    /\ \E id \in 1..Len(sigs) :
          /\ sigs[id].outcome = "expired"
          /\ sigs[id].entry_price = None

\* C9: has_open_signal(symbol) returns true exactly when the table holds for the
\* symbol a signal with outcome open whose age is at most its ttl; called on a
\* tracked signal past its ttl it moves that signal to the closed signals with
\* outcome expired; otherwise it changes nothing.
C9_HasOpenSignal ==
    /\ [](\A s \in Symbols :
            has_open_signal_ret(s) <=>
                \E i \in EntriesOf(_open_signals, s) :
                    /\ sigs[_open_signals[i][2]].outcome = "open"
                    /\ now - sigs[_open_signals[i][2]].opened_at <= sigs[_open_signals[i][2]].ttl)
    /\ [][\A s \in Symbols :
            has_open_signal(s) =>
                LET id == DictGet(_open_signals, s)
                IN  IF id # None /\ now - sigs[id].opened_at > sigs[id].ttl
                    THEN /\ ~has_open_signal_ret(s)
                         /\ sigs'[id].outcome = "expired"
                         /\ EntriesOf(_open_signals', s) = {}
                         /\ Len(_closed_signals') = Len(_closed_signals) + 1
                         /\ _closed_signals'[Len(_closed_signals')].id = id
                         /\ _closed_signals'[Len(_closed_signals')].outcome = "expired"
                    ELSE UNCHANGED <<sigs, _open_signals, _closed_signals>>
       ]_vars

\* C9 witness: with no monitor started, a signal past its ttl was moved to the
\* closed signals as expired and its symbol has no open signal.
C9_Witness ==
    /\ _monitor_task = "none"
    /\ \E i \in 1..Len(_closed_signals) :
          /\ _closed_signals[i].outcome = "expired"
          /\ ~has_open_signal_ret(_closed_signals[i].symbol)
          /\ now - _closed_signals[i].opened_at > _closed_signals[i].ttl

\* C10: with atr > 0 every registered long has sl_price < entry_price < tp_price
\* and every registered short has tp_price < entry_price < sl_price.
C10_BracketAroundEntry ==
    \A id \in 1..Len(sigs) :
        sigs[id].atr > 0 =>
            IF sigs[id].direction = "long"
            THEN sigs[id].sl_price < sigs[id].entry_price
                 /\ sigs[id].entry_price < sigs[id].tp_price
            ELSE sigs[id].tp_price < sigs[id].entry_price
                 /\ sigs[id].entry_price < sigs[id].sl_price

Sign(x) == IF x > 0 THEN 1 ELSE IF x < 0 THEN -1 ELSE 0

\* C11: for every closed signal the sign of pnl_pct is the sign of close - entry for
\* a long and of entry - close for a short.
C11_PnlSign ==
    \A i \in 1..Len(_closed_signals) :
        LET c == _closed_signals[i]
        IN  Sign(c.pnl_pct) = IF c.direction = "long"
                              THEN Sign(c.close_price - c.entry_price)
                              ELSE Sign(c.entry_price - c.close_price)

\* The one- and two-row results of get_signals, newest first.
C12_RowSeqs ==
    {<<r>> : r \in DbRows(now)}
        \cup {q \in {<<r1, r2>> : r1, r2 \in DbRows(now)} : q[1].timestamp >= q[2].timestamp}

\* C12: startup recovery on an empty Tracker: after it, every row without outcome
\* that is within its TTL has an open signal of its symbol in the Tracker, every
\* row without outcome that is past its TTL has been made a signal marked expired,
\* and the Tracker holds at most one open signal per symbol.
C12_StartupRecovery ==
    [][\A rows \in C12_RowSeqs :
        (restore_open_signals_from_db(rows) /\ sigs = <<>> /\ _open_signals = <<>>)
        => /\ \A j \in 1..Len(rows) :
                rows[j].outcome = "" =>
                    IF now - rows[j].timestamp > SignalMaxTtl
                    THEN \E id \in 1..Len(sigs') :
                            /\ sigs'[id].symbol = rows[j].symbol
                            /\ sigs'[id].opened_at = rows[j].timestamp
                            /\ sigs'[id].outcome = "expired"
                    ELSE /\ DictHas(_open_signals', rows[j].symbol)
                         /\ is_open(sigs'[DictGet(_open_signals', rows[j].symbol)])
           /\ \A s \in Symbols : Cardinality(EntriesOf(_open_signals', s)) <= 1
    ]_vars

\* The events of the history h, in order.
EventsOf(h) == [i \in 1..Len(h) |-> h[i].event]

Accepted == SelectSeq(pushed, LAMBDA p : p.accepted)
Dropped == SelectSeq(pushed, LAMBDA p : ~p.accepted)

\* C13: the queue never holds more than event_queue_maxsize events, and a push_event
\* on a full queue returns with the queue's contents unchanged.
C13_Bounded ==
    /\ Len(_queue) <= EventQueueMaxsize
    /\ Len(Dropped) > 0 => Len(popped) + Len(_queue) = Len(Accepted)
    /\ (Len(_queue) = EventQueueMaxsize /\ Len(pushed) < MaxPushes)
           => \A s \in Symbols :
                 /\ ENABLED scan_push(s)
                 /\ push_event(_queue, [symbol |-> s, ts |-> Len(pushed) + 1]) = _queue

C13_Witness ==
    /\ Len(Dropped) > 0
    /\ Len(_queue) = EventQueueMaxsize
    /\ pushed[Len(pushed)].accepted = FALSE
    /\ \A i \in 1..Len(_queue) : _queue[i].ts < pushed[Len(pushed)].event.ts

\* C14: when push_event drops an event, the drop is logged, the drops are counted
\* (some counter of monitoring._counters holds the number of dropped events), and the
\* push loop goes on with its next event.
C14_DropCounted ==
    Len(Dropped) > 0 =>
        /\ warned = Len(Dropped)
        /\ \E c \in DOMAIN _counters : _counters[c] = Len(Dropped)
        /\ Len(pushed) < MaxPushes => \A s \in Symbols : ENABLED scan_push(s)

\* TRUE iff the sequence a is b with some elements left out (the order kept).
RECURSIVE IsSubseq(_, _)
IsSubseq(a, b) ==
    IF a = <<>> THEN TRUE
    ELSE IF b = <<>> THEN FALSE
    ELSE IF Head(a) = Head(b) THEN IsSubseq(Tail(a), Tail(b))
    ELSE IsSubseq(a, Tail(b))

NewestFirst(list) == \A i \in 1..Len(list) - 1 : list[i] > list[i + 1]

\* C16: in every state of the Raw Store, which a reader may observe, and in every
\* list a reader has loaded, a bounded history is newest-first and holds at most
\* its cap of elements.
C16_HistoryWithinCap ==
    /\ \A k \in HistoryKeys : NewestFirst(history[k]) /\ Len(history[k]) <= HistoryCap
    /\ NewestFirst(loaded.items) /\ Len(loaded.items) <= HistoryCap

\* C17: a handler call whose payload validation rejects writes nothing to the Raw
\* Store, publishes nothing, increments the invalid counter of its kind and no other
\* counter, and returns normally.
C17_RejectedIsDropped == [][
    (handled' = handled + 1 /\ ~validate(last_msg'.kind, last_msg'.payload))
        => /\ history' = history
           /\ pending' = pending
           /\ last_write' = last_write
           /\ bus' = bus
           /\ ingest' = [ingest EXCEPT !.invalid[last_msg'.kind] = @ + 1]
           /\ last_msg'.result = "returned" ]_vars

C17_Witness ==
    /\ last_msg.kind = "funding"
    /\ ~validate_funding(last_msg.payload)
    /\ ingest.invalid["funding"] = 1
    /\ ingest.invalid["force_order"] = 1
    /\ last_write = NoWrite
    /\ bus = 0

\* The fields a payload of the kind must carry, and those of them that are numeric.
RequiredFields(kind) ==
    CASE kind = "kline" -> {"s", "t", "o", "h", "l", "c", "v", "q", "x"}
      [] kind = "depth" -> {"stream", "bids", "asks"}
      [] kind = "mark_price" -> {"s", "p", "i", "r"}
      [] kind = "force_order" -> {"s", "S", "p", "q"}
      [] kind = "open_interest" -> {"openInterest"}
      [] kind = "funding" -> {"lastFundingRate", "markPrice", "indexPrice"}
NumericFields(kind) ==
    CASE kind = "kline" -> {"o", "h", "l", "c", "v", "q"}
      [] kind = "depth" -> {}
      [] kind = "mark_price" -> {"p", "i", "r"}
      [] kind = "force_order" -> {"p", "q"}
      [] kind = "open_interest" -> {"openInterest"}
      [] kind = "funding" -> {"lastFundingRate", "markPrice", "indexPrice"}

\* C18: a payload with a required field missing, or with a required numeric field
\* that is not a finite decimal (NaN, infinity and text included), is rejected, and
\* nothing written to the Raw Store carries such a field.
C18_OnlyFiniteAccepted ==
    /\ last_msg.verdict = "accepted" =>
          /\ \A f \in RequiredFields(last_msg.kind) : last_msg.payload[f] # "missing"
          /\ \A f \in NumericFields(last_msg.kind) : last_msg.payload[f] = "finite"
    /\ \A kind \in Kinds :
          last_write.key \in ({SnapshotKeyOf(kind), HistoryKeyOf(kind, GoodKline)} \ {""}) =>
              \A f \in NumericFields(kind) : last_write.values[f] = "finite"

\* C19: a staleness sweep starts the recomputation of every symbol whose last
\* computation is older than FALLBACK_INTERVAL, and whatever the update stream
\* delivers, every symbol is recomputed again and again.
C19_EventuallyRecomputed ==
    /\ [][(fallback_pc = "check" /\ fallback_pc' # "check")
            => \A s \in Symbols : _last_computed_age[s] > FALLBACK_INTERVAL
                                      => comp'["fallback"][s] = "running"]_vars
    /\ \A s \in Symbols : []<>(\E l \in FeatureLoops : comp[l][s] = "running")

C19_Witness ==
    \A s \in Symbols : runs["fallback"][s] = MaxRuns /\ runs["stream"][s] = 0

\* C20: the stream consumer and the fallback loop never run a recomputation of the
\* same symbol at the same time.
C20_Serialized ==
    \A s \in Symbols : ~(comp["stream"][s] = "running" /\ comp["fallback"][s] = "running")

\* The delay after the n-th failure in a row: the start delay times 1.5 for each
\* earlier failure, at most max_backoff.
RECURSIVE ExpectedDelay(_, _)
ExpectedDelay(delay, n) ==
    IF n <= 1 THEN delay
    ELSE LET d == (ExpectedDelay(delay, n - 1) * 3) \div 2
         IN  IF d < max_backoff THEN d ELSE max_backoff

\* C21: the delay slept after the n-th failure since the last successful connect is
\* ws_reconnect_delay * 1.5^(n-1), at most 30 s; a successful connect resets the
\* backoff; the task ends only when the collector is stopped, and while it runs a
\* sleeping connection always tries again.
C21_Backoff ==
    /\ [](/\ conn.pc = "sleeping" =>
                /\ conn.slept = ExpectedDelay(conn.delay, conn.streak)
                /\ conn.slept <= max_backoff
          /\ conn.pc = "connected" => conn.backoff = conn.delay
          /\ conn.pc = "done" => ~collector_running)
    /\ (conn.pc = "sleeping") ~> (conn.pc \in {"connecting", "done"})

C21_Witness ==
    /\ conn.pc = "sleeping"
    /\ conn.connected
    /\ conn.delay = 3072
    /\ conn.streak = 7
    /\ conn.slept = max_backoff

\* C22: when the shutdown half of lifespan is over, no long-lived task is still
\* running: the streaming connection and every loop task have terminated.
C22_AllTasksTerminate ==
    lifespan_pc \in {"complete", "aborted"} =>
        /\ conn.pc = "done"
        /\ \A t \in LongTasks : ltask[t] # "running"

\* C23: the Telegram queue never holds more than its bound, a signal that meets a
\* full queue is dropped and counted, and an emission in progress can always take
\* its next step whatever the clients do: the consumer waits on no client.
C23_EmissionNeverBlocks ==
    /\ Len(_signal_queue) <= SignalQueueMaxsize
    /\ sink_counters.telegram_queue_full + Len(_signal_queue) <= sink_counters.signals_emitted
    /\ emission.pc # "idle" => ENABLED EmissionStep

\* C24: committed rows are in enqueue order, each once; while the database is open
\* a buffer nobody is flushing is below the size threshold; and once close_db has
\* returned, every row enqueued before close_db began has been written, unless a
\* flush failed on the database.
C24_FinalFlush ==
    /\ \A i \in 1..Len(db_rows) - 1 : db_rows[i] < db_rows[i + 1]
    /\ (db_pc # "closed" /\ _buffer_lock = "free") => Len(_write_buffer) < _FLUSH_SIZE
    /\ (db_pc = "closed" /\ ~db_log.failed) =>
            \A n \in 1..db_log.at_close : \E i \in 1..Len(db_rows) : db_rows[i] = n

Voting(d) ==
    {tf \in Timeframes : mtf_store[tf] # Absent /\ _get_timeframe_direction(mtf_store[tf]) = d}

\* The alignment computed at the gate is aligned exactly when one direction has
\* at least mtf_min_aligned timeframes and strictly more than the opposite one.
C26_AlignedExactly ==
    gate.computed =>
        (gate.mtf_aligned <=>
            \/ Cardinality(Voting("long")) >= mtf_min_aligned
                  /\ Cardinality(Voting("long")) > Cardinality(Voting("short"))
            \/ Cardinality(Voting("short")) >= mtf_min_aligned
                  /\ Cardinality(Voting("short")) > Cardinality(Voting("long")))

\* C26: the alignment is aligned exactly when one direction has at least
\* mtf_min_aligned timeframes and strictly more than the opposite one; and a
\* symbol whose primary timeframe is bullish and whose other timeframes are flat
\* gets no signal, whatever its score.
C26_MisalignedBlocks ==
    /\ C26_AlignedExactly
    /\ ( /\ gate.pc # "pending"
         /\ cfg.mtf_alignment_required
         /\ Voting("long") = {primary_timeframe}
         /\ Voting("short") = {} ) => gate.pc # "signal"

\* C27: the seven weights sum to 1.0, every score component lies in [0, 1] and
\* the composite score lies in [0, 1], for every feature map and event list.
C27_ScoreInUnitInterval ==
    /\ WEIGHTS.trend + WEIGHTS.liquidation + WEIGHTS.volatility + WEIGHTS.vwap
         + WEIGHTS.oi + WEIGHTS.structure + WEIGHTS.event_quality = 100
    /\ scored.pc = "done" =>
         /\ \A c \in ComponentNames :
                /\ ~scored.result.components[c].nan
                /\ scored.result.components[c].v \in 0..1000
         /\ ~scored.result.score.nan
         /\ scored.result.score.v \in 0..100000

\* The same for the feature maps whose numbers are all finite.
C27_FiniteScoreInUnitInterval ==
    ( /\ scored.pc = "done"
      /\ ~scored.features.range_expansion.nan
      /\ ~scored.features.oi_delta.nan ) =>
         /\ \A c \in ComponentNames :
                /\ ~scored.result.components[c].nan
                /\ scored.result.components[c].v \in 0..1000
         /\ ~scored.result.score.nan
         /\ scored.result.score.v \in 0..100000

\* Events of the call whose detail.bias or detail.direction is the given side.
EventVotes(side) ==
    Cardinality({i \in 1..Len(scored.events) : EventBias(scored.events[i]) = side})

\* C28: the direction is long when the bull votes are at least the bear votes and
\* short otherwise; trend, vwap, liquidation ratio, structure state and breakout
\* give at most one vote each, and every event whose bias or direction is bullish
\* or bearish gives one vote to that side.
C28_DirectionByVotes ==
    scored.pc = "done" =>
        LET votes == scored.result.votes
            feature_bull == votes.bull - EventVotes("bullish")
            feature_bear == votes.bear - EventVotes("bearish")
        IN  /\ scored.result.direction = (IF votes.bull >= votes.bear THEN "long" ELSE "short")
            /\ feature_bull >= 0
            /\ feature_bear >= 0
            /\ feature_bull + feature_bear <= 5

\* A tie of votes, with features and events voting on both sides, decided long.
C28_Witness ==
    /\ scored.pc = "done"
    /\ scored.result.votes.bull = scored.result.votes.bear
    /\ EventVotes("bullish") > 0
    /\ EventVotes("bearish") > 0
    /\ scored.result.votes.bull > EventVotes("bullish")
    /\ scored.result.direction = "long"

\* C29: under every interleaving of a suspended monitor sweep with the calls of
\* the tracker, a signal is closed at most once: the closed ring holds it at most
\* once, an outcome other than open never changes, and a step that closes a
\* signal leaves a different signal of the same symbol in the open table.
C29_ClosedAtMostOnce ==
    /\ [](\A id \in 1..Len(sigs) : Cardinality(ClosesOf(_closed_signals, id)) <= 1)
    /\ [][\A id \in 1..Len(sigs) :
             /\ ~is_open(sigs[id]) => sigs'[id].outcome = sigs[id].outcome
             /\ LET newer == DictGet(_open_signals, sigs[id].symbol)
                IN  ( /\ sigs'[id].outcome # sigs[id].outcome
                      /\ newer # None
                      /\ newer # id )
                    => DictGet(_open_signals', sigs[id].symbol) = newer ]_vars

\* C30: a signal that passed the gates and could not be armed is emitted unarmed
\* and stamps the cooldown of its symbol; no signal is emitted for a symbol
\* while signal_cooldown_seconds have not elapsed since that stamp.
C30_UnarmedCooldown ==
    [][ /\ (\E m \in EntryMarkReads, k \in EntryKlineReads, a \in AtrReads : signal_arm(m, k, a))
             => ~InCooldown(eval.symbol, now)
        /\ (eval.pc = "arm" /\ signal_arm(None, None, 0))
             => _cooldowns'[eval.symbol] = eval.now ]_vars

\* C31: the entry price of the arming step is the mark price when the mark-price
\* hash is there, otherwise the close the kline handler wrote for the primary
\* timeframe; without mark price, with that close and the atr positive, the
\* signal is registered at the close.
C31_EntryFromPrimaryKline ==
    arming.pc = "done" =>
        LET mark == arming.store[MarkKey]
            close == arming.store[KlineKey(primary_timeframe)]
        IN  /\ mark # None => arming.entry_price = mark
            /\ (mark = None /\ close # None) => arming.entry_price = close
            /\ (mark = None /\ close # None /\ close > 0 /\ arming.atr > 0) => arming.registered

\* C32: a buffer holding an event older than the maximum age is flushed, also
\* while events keep arriving and evaluation is skipped: it does not keep
\* growing.
C32_StaleBufferFlushed ==
    (age_buffer.n > 0 /\ age_buffer.first > BufferMaxAge) ~> (age_buffer.n = 0)

\* Without further events of the symbol a stale buffer is flushed.
C32_QuietBufferFlushed ==
    (age_buffer.n > 0 /\ age_buffer.last > BufferMaxAge /\ age_queue = <<>>)
        ~> (age_buffer.n = 0 \/ age_queue # <<>>)


\* C33: no registered signal is lost.  Every signal object that register_signal or
\* startup recovery created is either stored in the open table under its symbol
\* with outcome open, or it was closed and archived in the closed ring.
C33_NoSignalLost ==
    \A id \in 1..Len(sigs) :
        \/ /\ is_open(sigs[id])
           /\ DictGet(_open_signals, sigs[id].symbol) = id
        \/ /\ ~is_open(sigs[id])
           /\ \E i \in 1..Len(_closed_signals) : _closed_signals[i].id = id


\* C35: whenever no recomputation of the symbol is in progress, the default
\* feature slot holds the same snapshot as the primary-timeframe slot.
C35_DefaultEqualsPrimary ==
    (\A l \in FeatureLoops : slot_comp[l].pc = "idle")
        => feature_slots.default = feature_slots.primary

\* C35, the write itself: the step that completes a recomputation has written to
\* the default slot the snapshot this recomputation wrote to the primary slot.
C35_WritesSameSnapshot ==
    [][\A l \in FeatureLoops :
          slot_write_default(l) => feature_slots'.default = slot_comp[l].snap]_vars


\* C34: has_open_signal is a pure read.  A has_open_signal call leaves the open
\* table and the closed ring (and the signal objects) as they were.
C34_HasOpenSignalReadsOnly ==
    [][\A s \in Symbols :
          has_open_signal(s) => UNCHANGED <<sigs, _open_signals, _closed_signals>>]_vars


\* C36: a signal is persisted before it is notified.  Every signal that was put
\* on the notification queue has its row in the signals table.
C36_PersistedBeforeNotified ==
    \A i \in 1..Len(notify_log) : InSeq(notify_log[i], sqlite_rows)

\* C36, the order of the steps: persist, then broadcast, then enqueue.
C36_EmitOrder ==
    /\ emit.steps = SubSeq(EmitOrder, 1, Len(emit.steps))
    /\ \A i \in 1..Len(notify_log) :
          notify_log[i] <= emit.signal /\ (notify_log[i] = emit.signal => emit.pc = "idle")


\* C37: structure_breakout is emitted only for a bullish or bearish breakout that
\* differs from the retained one, imbalance_flip only for non-zero imbalances of
\* opposite signs with |current| >= imbalance_flip_threshold, liquidation_spike
\* only for a retained total > 0 and a current total above it times
\* liq_spike_threshold; the scan retains the snapshot it read, and scanning the
\* unchanged snapshot again emits none of the three.
C37_TransitionEventsOnce ==
    replay.pc # "idle" =>
        LET f == replay.features
            prev == replay.prev
        IN  /\ "structure_breakout" \in replay.first =>
                  f.breakout \in {"bullish", "bearish"} /\ f.breakout # prev.breakout
            /\ "imbalance_flip" \in replay.first =>
                  /\ prev.ob_imbalance # 0 /\ f.ob_imbalance # 0
                  /\ (prev.ob_imbalance < 0) # (f.ob_imbalance < 0)
                  /\ Magnitude(f.ob_imbalance) >= imbalance_flip_threshold
            /\ "liquidation_spike" \in replay.first =>
                  /\ prev.liq_total_usd > 0
                  /\ f.liq_total_usd > prev.liq_total_usd * liq_spike_threshold
            /\ _prev_features.breakout = f.breakout
            /\ _prev_features.ob_imbalance = f.ob_imbalance
            /\ _prev_features.liq_total_usd = f.liq_total_usd
            /\ replay.pc = "rescanned" => replay.second \cap TransitionEvents = {}

\* C37 witness: a scan emitted the three events and the scan of the same snapshot
\* that followed emitted none of them.
C37_Witness ==
    /\ replay.pc = "rescanned"
    /\ TransitionEvents \subseteq replay.first
    /\ replay.second \cap TransitionEvents = {}


\* C38: a frame that is not valid JSON, or whose handler raises, is dropped with
\* the connection left open: no reconnect, no backoff, the frames behind it stay
\* to be iterated; frames are taken one at a time and in arrival order.
C38_BadFrameDropped ==
    [][Len(frame_log') > Len(frame_log) =>
          LET e == frame_log'[Len(frame_log')]
          IN  /\ Len(frame_log') = Len(frame_log) + 1
              /\ \A i \in 1..Len(frame_log) : frame_log[i].n < e.n
              /\ frame' = NoFrame
              /\ \A i \in 1..Len(inbox) : inbox[i].n > e.n => InSeq(inbox[i], inbox')
              /\ \A i \in 1..Len(inbox') : inbox'[i].n > e.n
              /\ e.result # "handled" =>
                    /\ link'.pc = "connected"
                    /\ link'.backoff = link.backoff
                    /\ link'.reconnects = link.reconnects
    ]_vars

\* C38 witness: on a connection never lost, a frame that is not JSON and a frame
\* whose handler raised were dropped and the frame behind them was handled.
C38_Witness ==
    /\ link.pc = "connected"
    /\ link.reconnects = 0
    /\ Len(frame_log) = 3
    /\ frame_log[1].result = "bad_json"
    /\ frame_log[2].result = "handler_error"
    /\ frame_log[3] = [n |-> 3, result |-> "handled"]


\* C39: the structure component counts only what agrees with the direction of the
\* signal: 0.6 for uptrend with long or downtrend with short, 0.4 more for a
\* breakout of that side, at most 1.0; a structure state or a breakout of the
\* other side adds nothing.
C39_StructureFollowsDirection ==
    scored.pc = "done" =>
        LET f == scored.features
            long == scored.result.direction = "long"
            state == IF f.structure_state = (IF long THEN "uptrend" ELSE "downtrend") THEN 600 ELSE 0
            aligned == IF f.breakout = (IF long THEN "bullish" ELSE "bearish") THEN 400 ELSE 0
        IN  scored.result.components.structure = Num(Min2(state + aligned, 1000))


\* C40: the closed ring never holds more than _MAX_CLOSED entries; it holds the
\* latest closes in the order they happened, the oldest evicted first; and
\* get_closed_signals returns the most recent closes, newest first.
C40_RingBounded ==
    /\ Len(closed_ring) <= _MAX_CLOSED
    /\ Len(closed_ring) = Min2(closed_count, _MAX_CLOSED)
    /\ \A i \in 1..Len(closed_ring) : closed_ring[i] = closed_count - Len(closed_ring) + i
    /\ closed_view # NoView =>
          /\ \A i \in 1..Len(closed_view.result) : closed_view.result[i] = closed_count + 1 - i
          /\ Len(closed_view.result) <= Len(closed_ring)
          /\ closed_ring # <<>> => closed_view.result # <<>>
          /\ closed_view.limit > 0 =>
                Len(closed_view.result) = Min2(closed_view.limit, Len(closed_ring))

\* C40 witness: more than _MAX_CLOSED closes happened, the oldest are gone, and
\* get_closed_signals(50) was answered with the latest close first.
C40_Witness ==
    /\ closed_count > _MAX_CLOSED
    /\ Len(closed_ring) = _MAX_CLOSED
    /\ closed_ring[1] = closed_count - _MAX_CLOSED + 1
    /\ closed_view.limit = 50
    /\ Len(closed_view.result) = 50
    /\ closed_view.result[1] = closed_count

====
